---- MODULE Spec2Model ----
(***************************************************************************)
(* Model of PlaywrightMCPTestRunner (src/client.py): the keyword rules     *)
(* that turn a step text into one browser action, the action executor,     *)
(* the per-case runner with fail-fast and failure screenshot, and the      *)
(* suite runner that owns the browser session.                             *)
(*                                                                         *)
(* Texts are sequences of tokens.  A token is one keyword of the rule      *)
(* table, one URL scheme, or one character.  The keywords are written in   *)
(* pinyin, one token per keyword of the source:                            *)
(*   daohang = U+5BFC U+822A (navigate)   dakai   = U+6253 U+5F00 (open)     *)
(*   fangwen = U+8BBF U+95EE (visit)      sousuo  = U+641C U+7D22 (search)   *)
(*   shuru   = U+8F93 U+5165 (input)      dianji  = U+70B9 U+51FB (click)    *)
(*   anniu   = U+6309 U+94AE (button)     yanzheng= U+9A8C U+8BC1 (verify)   *)
(*   jiancha = U+68C0 U+67E5 (check)      biaoti  = U+6807 U+9898 (title)    *)
(*   dengdai = U+7B49 U+5F85 (wait)       baidu   = U+767E U+5EA6            *)
(*   fwcomma = U+FF0C                     fwstop  = U+3002                  *)
(* `kw in step` of the source is token membership.                         *)
(***************************************************************************)
EXTENDS Integers, Sequences, FiniteSets, TLC

VARIABLES
    test_cases,     \* the argument of run_all_tests
    pc,             \* position inside run_all_tests, or of a client that
                    \* calls the runner's methods itself ("direct")
    idx,            \* index (1-based) of the next case of the for loop
    browser,        \* self.browser: "None" | "open" | "closed"
    context,        \* self.context: "None" | "open"
    page,           \* self.page:    "None" | "open"
    test_results,   \* self.test_results
    log,            \* every awaited collaborator call answered so far, in
                    \* the order the answers came
    clock,          \* wall clock: one tick per collaborator call
    cur,            \* the run_test_case (or parse_and_execute_ai_commands)
                    \* invocation in progress or last finished: inputs, locals
    raised,         \* the exception propagating out of run_all_tests, or None
    reported,       \* the lists generate_report was called with, oldest first
    reports_dir,    \* the files of REPORTS_DIR: summaries, charts, HTML reports
    setup,          \* position inside setup_browser: the await it makes next
                    \* ("start", "launch", "new_context", "new_page"), or
                    \* "returned" or "raised"
    called          \* the last execute_playwright_action call a client made
                    \* itself: its arguments and what it returned, or None

vars == <<test_cases, pc, idx, browser, context, page, test_results, log,
          clock, cur, raised, reported, reports_dir, setup, called>>

-----------------------------------------------------------------------------
(* Python values *)

\* Python None / a present value, for fields that hold Optional[...]
None == <<>>
Some(v) == <<v>>

\* dict.get(key, default)
Get(d, key, default) == IF key \in DOMAIN d THEN d[key] ELSE default

\* `kw in step` for a str step
Contains(kw, text) == \E i \in 1..Len(text) : text[i] = kw

\* str.lower() on the tokens that have an upper-case letter
LowerTok(t) ==
    CASE t \in {"Playwright", "PLAYWRIGHT"} -> "playwright"
      [] t = "Example" -> "example"
      [] OTHER -> t
Lower(text) == [i \in 1..Len(text) |-> LowerTok(text[i])]

\* str(timeout) inside an f-string
IntStr(n) ==
    CASE n = 1000 -> "1000"
      [] n = 2000 -> "2000"
      [] n = 3000 -> "3000"
      [] n = 30000 -> "30000"
      [] OTHER -> "int"

-----------------------------------------------------------------------------
(* The two regular expressions of parse_and_execute_ai_commands *)

\* [^\s\)<fwcomma><fwstop>]
UrlStop == {" ", ")", "fwcomma", "fwstop"}
\* https?://
Schemes == {"http://", "https://"}

\* re.search(r'https?://[^\s\)...]+', step): positions where a match starts
UrlStarts(text) ==
    {i \in 1..Len(text) :
        /\ text[i] \in Schemes
        /\ i < Len(text)
        /\ text[i + 1] \notin UrlStop}

\* the greedy end of the run that starts after position i
UrlEnd(text, i) ==
    CHOOSE j \in (i + 1)..Len(text) :
        /\ \A k \in (i + 1)..j : text[k] \notin UrlStop
        /\ (j = Len(text) \/ text[j + 1] \in UrlStop)

\* the leftmost match among the start positions
UrlPick(text, starts) ==
    IF starts = {} THEN None
    ELSE LET i == CHOOSE a \in starts : \A b \in starts : a <= b
         IN  Some(SubSeq(text, i, UrlEnd(text, i)))

\* url_match: None, or Some(url_match.group())
UrlSearch(text) == UrlPick(text, UrlStarts(text))

\* ['\"]
Quotes == {"'", "\""}

\* re.search(r"['\"]([^'\"]+)['\"]", step): (open, close) positions of matches
QuoteSpans(text) ==
    {p \in (1..Len(text)) \X (1..Len(text)) :
        /\ p[1] + 1 < p[2]
        /\ text[p[1]] \in Quotes
        /\ text[p[2]] \in Quotes
        /\ \A k \in (p[1] + 1)..(p[2] - 1) : text[k] \notin Quotes}

\* the leftmost match among the spans
QuotePick(text, spans) ==
    IF spans = {} THEN None
    ELSE LET p == CHOOSE a \in spans : \A b \in spans : a[1] <= b[1]
         IN  Some(SubSeq(text, p[1] + 1, p[2] - 1))

\* text_match: None, or Some(text_match.group(1))
QuoteSearch(text) == QuotePick(text, QuoteSpans(text))

-----------------------------------------------------------------------------
(* execute_playwright_action *)

\* dict.get(key) of a dict whose values are texts: None when the key is absent
OptGet(d, key) == IF key \in DOMAIN d THEN Some(d[key]) ELSE None

\* d[key] = v
Set(d, key, v) == (key :> v) @@ d

\* f"{kwargs.get(key)}": the text, or the word None
KwText(kwargs, key) == IF key \in DOMAIN kwargs THEN kwargs[key] ELSE <<"None">>

\* the nine action names the executor dispatches on
ActionKinds == {"goto", "click", "fill", "type", "wait", "wait_for_selector",
                "screenshot", "get_text", "get_title"}

\* the return value of a branch whose browser operation returned normally.
\* out.detail is what the operation returned (the title, the inner text).
ActionSuccess(action, kwargs, out) ==
    CASE action = "goto" ->
            [success |-> TRUE, message |-> <<"yi daohang dao ">> \o KwText(kwargs, "url")]
      [] action = "click" ->
            [success |-> TRUE, message |-> <<"yi dianji ">> \o KwText(kwargs, "selector")]
      [] action \in {"fill", "type"} ->
            [success |-> TRUE,
             message |-> <<"yi zai ">> \o KwText(kwargs, "selector")
                         \o <<" zhong shuru ">> \o KwText(kwargs, "text")]
      [] action = "wait" ->
            [success |-> TRUE,
             message |-> <<"dengdai ", IntStr(Get(kwargs, "timeout", 3000)), "ms">>]
      [] action = "wait_for_selector" ->
            [success |-> TRUE,
             message |-> <<"dengdai yuansu ">> \o KwText(kwargs, "selector")
                         \o <<" chuxian">>]
      [] action = "screenshot" ->
            [success |-> TRUE,
             message |-> <<"yi baocun jietu dao ", Get(kwargs, "path", "None")>>]
      [] action = "get_text" ->
            [success |-> TRUE, text |-> out.detail, message |-> <<"huoqu wenben chenggong">>]
      [] action = "get_title" ->
            [success |-> TRUE, title |-> out.detail,
             message |-> <<"yemian biaoti: ">> \o out.detail]

\* ExecutePlaywrightAction without the except clause: the fault of the browser
\* operation leaves the function
ExecuteUnguarded(pg, action, kwargs, out) ==
    IF pg = "None"
    THEN [result |-> [success |-> FALSE, error |-> <<"yemian wei chushihua">>],
          op |-> FALSE, raised |-> None]
    ELSE IF action \notin ActionKinds
    THEN [result |-> [success |-> FALSE, error |-> <<"weizhi caozuo: ", action>>],
          op |-> FALSE, raised |-> None]
    ELSE IF out.ok
    THEN [result |-> ActionSuccess(action, kwargs, out), op |-> TRUE, raised |-> None]
    ELSE [result |-> [success |-> FALSE], op |-> TRUE, raised |-> Some("Error")]

\* ExecutePlaywrightAction without the `if not self.page` check
ExecuteWithoutPageCheck(pg, action, kwargs, out) ==
    IF action \notin ActionKinds
    THEN [result |-> [success |-> FALSE, error |-> <<"weizhi caozuo: ", action>>],
          op |-> FALSE, raised |-> None]
    ELSE IF out.ok
    THEN [result |-> ActionSuccess(action, kwargs, out), op |-> TRUE, raised |-> None]
    ELSE [result |-> [success |-> FALSE, error |-> out.detail], op |-> TRUE,
          raised |-> None]

\* execute_playwright_action(action, **kwargs) on page pg, the browser answering
\* with out = [ok, detail] (detail is str(e) when the operation raised).
\* result is the dict returned; op tells whether a browser operation was
\* started; raised is the exception that leaves the function (the except
\* clause catches every Exception of the operation, so there is none).
ExecutePlaywrightAction(pg, action, kwargs, out) ==
    IF pg = "None"
    THEN [result |-> [success |-> FALSE, error |-> <<"yemian wei chushihua">>],
          op |-> FALSE, raised |-> None]
    ELSE IF action \notin ActionKinds
    THEN [result |-> [success |-> FALSE, error |-> <<"weizhi caozuo: ", action>>],
          op |-> FALSE, raised |-> None]
    ELSE IF out.ok
    THEN [result |-> ActionSuccess(action, kwargs, out), op |-> TRUE, raised |-> None]
    ELSE [result |-> [success |-> FALSE, error |-> out.detail], op |-> TRUE,
          raised |-> None]

\* the call log entry of one executor call (op: it reached the browser)
Call(action, kwargs, r) ==
    <<[call |-> action, kwargs |-> kwargs, ok |-> r.result.success, op |-> r.op]>>

-----------------------------------------------------------------------------
(* parse_and_execute_ai_commands: the body of the step loop *)

\* A step is a JSON value, [str, kind, text]:
\*   a string (kind "str", text its tokens);
\*   a number, a boolean or null (kind the name of its Python type, text
\*   empty), on which `kw in step` raises TypeError;
\*   an array or an object (kind "list" or "dict", text its elements or its
\*   keys), on which `kw in step` is element or key membership and re.search
\*   raises TypeError.
Scalars == {"int", "float", "bool", "NoneType"}

\* str(e) of the TypeError raised by `kw in step`
TypeErrorText(kind) == <<"argument of type '", kind, "' is not iterable">>

\* str(e) of the TypeError raised by re.search(pattern, step)
RegexErrorText(kind) == <<"expected string or bytes-like object, got '", kind, "'">>

SearchBoxSelector == <<"input[name='wd'], input#kw">>
SubmitSelector == <<"input[type='submit'], button, #su">>
GenericSelector == <<"button, a">>
StepDoneMessage == <<"buzhou zhixing wancheng">>

\* StepRule testing the click keyword before the navigation keywords
StepRuleClickFirst(text) ==
    IF Contains("dianji", text) THEN "click"
    ELSE IF Contains("daohang", text) \/ Contains("dakai", text) \/ Contains("fangwen", text)
    THEN "navigate"
    ELSE IF Contains("sousuo", text) /\ Contains("shuru", text) THEN "search"
    ELSE IF Contains("yanzheng", text) \/ Contains("jiancha", text) THEN "verify"
    ELSE IF Contains("dengdai", text) THEN "wait"
    ELSE "default"

\* the branch of the if/elif chain a str step takes
StepRule(text) ==
    IF Contains("daohang", text) \/ Contains("dakai", text) \/ Contains("fangwen", text)
    THEN "navigate"
    ELSE IF Contains("sousuo", text) /\ Contains("shuru", text) THEN "search"
    ELSE IF Contains("dianji", text) THEN "click"
    ELSE IF Contains("yanzheng", text) \/ Contains("jiancha", text) THEN "verify"
    ELSE IF Contains("dengdai", text) THEN "wait"
    ELSE "default"

\* `if url_match:` and the goto call under it
NavigateAction(url_match) ==
    IF url_match = None THEN None
    ELSE Some([action |-> "goto", kwargs |-> [url |-> url_match[1]]])

\* `if text_match:` and the fill call under it
SearchAction(text_match) ==
    IF text_match = None THEN None
    ELSE Some([action |-> "fill",
               kwargs |-> [selector |-> SearchBoxSelector, text |-> text_match[1]]])

\* RuleAction clicking the generic selector whatever the step says
RuleActionGenericClick(rule, text) ==
    CASE rule = "navigate" -> NavigateAction(UrlSearch(text))
      [] rule = "search" -> SearchAction(QuoteSearch(text))
      [] rule = "click" ->
            Some([action |-> "click", kwargs |-> [selector |-> GenericSelector]])
      [] rule = "verify" ->
            IF Contains("biaoti", text)
            THEN Some([action |-> "get_title", kwargs |-> <<>>])
            ELSE Some([action |-> "wait", kwargs |-> [timeout |-> 2000]])
      [] rule = "wait" -> Some([action |-> "wait", kwargs |-> [timeout |-> 3000]])
      [] OTHER -> Some([action |-> "wait", kwargs |-> [timeout |-> 1000]])

\* the executor call of a str step that takes branch rule
RuleAction(rule, text) ==
    CASE rule = "navigate" -> NavigateAction(UrlSearch(text))
      [] rule = "search" -> SearchAction(QuoteSearch(text))
      [] rule = "click" ->
            IF Contains("sousuo", text) \/ Contains("anniu", text)
            THEN Some([action |-> "click", kwargs |-> [selector |-> SubmitSelector]])
            ELSE Some([action |-> "click", kwargs |-> [selector |-> GenericSelector]])
      [] rule = "verify" ->
            IF Contains("biaoti", text)
            THEN Some([action |-> "get_title", kwargs |-> <<>>])
            ELSE Some([action |-> "wait", kwargs |-> [timeout |-> 2000]])
      [] rule = "wait" -> Some([action |-> "wait", kwargs |-> [timeout |-> 3000]])
      [] OTHER -> Some([action |-> "wait", kwargs |-> [timeout |-> 1000]])

\* the executor call a str step makes: None, or Some([action, kwargs])
StepAction(text) == RuleAction(StepRule(text), text)

\* TitleValid comparing "playwright" without lower()
TitleValidCaseSensitive(title) == Contains("baidu", title) \/ Contains("playwright", title)

\* "baidu" in title or "playwright" in title.lower()
TitleValid(title) == Contains("baidu", title) \/ Contains("playwright", Lower(title))

\* step_result["success"] = result["success"]; step_result["message"] = result.get("message")
CopyResult(sr0, result) ==
    Set(Set(sr0, "success", result.success), "message", OptGet(result, "message"))

\* if not result["success"]: step_result["error"] = result.get("error")
CopyError(sr, result) ==
    IF result.success THEN sr ELSE Set(sr, "error", OptGet(result, "error"))

\* the title check after a get_title call
CheckTitle(sr, result) ==
    IF ~result.success THEN sr
    ELSE IF TitleValid(Get(result, "title", <<>>))
    THEN Set(sr, "success", TRUE)
    ELSE Set(Set(sr, "success", FALSE), "error",
             Some(<<"biaoti yanzheng shibai: ">> \o Get(result, "title", <<>>)))

\* RuleOutcome copying the result of the wait in the default branch
RuleOutcomeCopyDefault(rule, sr0, text, result) ==
    CASE rule \in {"navigate", "search", "click"} ->
            CopyError(CopyResult(sr0, result), result)
      [] rule = "verify" ->
            IF Contains("biaoti", text)
            THEN CheckTitle(CopyResult(sr0, result), result)
            ELSE Set(sr0, "success", TRUE)
      [] rule = "wait" -> CopyResult(sr0, result)
      [] OTHER -> CopyError(CopyResult(sr0, result), result)

\* RuleOutcome marking a click step a success whatever the click returned
RuleOutcomeTrustingClick(rule, sr0, text, result) ==
    CASE rule \in {"navigate", "search"} ->
            CopyError(CopyResult(sr0, result), result)
      [] rule = "click" -> Set(sr0, "success", TRUE)
      [] rule = "verify" ->
            IF Contains("biaoti", text)
            THEN CheckTitle(CopyResult(sr0, result), result)
            ELSE Set(sr0, "success", TRUE)
      [] rule = "wait" -> CopyResult(sr0, result)
      [] OTHER -> Set(Set(sr0, "success", TRUE), "message", Some(StepDoneMessage))

\* step_result after branch rule of a str step ran, given the result dict of
\* its executor call (sr0 is the freshly built step_result)
RuleOutcome(rule, sr0, text, result) ==
    CASE rule \in {"navigate", "search", "click"} ->
            CopyError(CopyResult(sr0, result), result)
      [] rule = "verify" ->
            IF Contains("biaoti", text)
            THEN CheckTitle(CopyResult(sr0, result), result)
            ELSE Set(sr0, "success", TRUE)
      [] rule = "wait" -> CopyResult(sr0, result)
      [] OTHER -> Set(Set(sr0, "success", TRUE), "message", Some(StepDoneMessage))

StepOutcome(sr0, text, result) == RuleOutcome(StepRule(text), sr0, text, result)

\* whether the branch assigns last_error (navigate, search, click on a failure)
SetsLastError(text, result) ==
    StepRule(text) \in {"navigate", "search", "click"} /\ ~result.success

\* the rest of the iteration once the executor call a returned r
AfterAction(sr0, text, a, r, last_error) ==
    [sr |-> StepOutcome(sr0, text, r.result),
     last_error |-> IF SetsLastError(text, r.result)
                    THEN OptGet(r.result, "error") ELSE last_error,
     calls |-> Call(a.action, a.kwargs, r)]

\* RunBranch issuing no action while there is no page
RunBranchPageAware(pg, sr0, text, act, out, last_error) ==
    IF act = None \/ pg = "None"
    THEN [sr |-> sr0, last_error |-> last_error, calls |-> <<>>]
    ELSE AfterAction(sr0, text, act[1],
                     ExecutePlaywrightAction(pg, act[1].action, act[1].kwargs, out),
                     last_error)

\* the branch of a str step: no call when the URL or quoted term is missing
RunBranch(pg, sr0, text, act, out, last_error) ==
    IF act = None
    THEN [sr |-> sr0, last_error |-> last_error, calls |-> <<>>]
    ELSE AfterAction(sr0, text, act[1],
                     ExecutePlaywrightAction(pg, act[1].action, act[1].kwargs, out),
                     last_error)

\* NewStepResult numbering the steps from 0 ("step": i)
NewStepResultZeroBased(i, step) ==
    [step |-> i - 1, description |-> step, success |-> FALSE, error |-> None]

\* step_result = {"step": i + 1, "description": step, "success": False, "error": None}
NewStepResult(i, step) ==
    [step |-> i, description |-> step, success |-> FALSE, error |-> None]

\* the TypeError the keyword tests or the regular expression raise on a step
\* that is not a string: None, or Some(str(e))
StepFault(step) ==
    IF step.kind \in Scalars THEN Some(TypeErrorText(step.kind))
    ELSE IF ~step.str /\ StepRule(step.text) \in {"navigate", "search"}
    THEN Some(RegexErrorText(step.kind))
    ELSE None

\* the except clause: the step_result of the step that raised, last_error
Excepted(sr0, message) ==
    [sr |-> Set(Set(sr0, "success", FALSE), "error", Some(message)),
     last_error |-> Some(message),
     calls |-> <<>>]

\* One iteration of `for i, step in enumerate(steps)` up to the append:
\* i is the 1-based step number, out the browser's answer to the action.
\* Returns the step_result appended, the new last_error and the calls made.
ExecuteStep(pg, i, step, out, last_error) ==
    IF StepFault(step) # None
    THEN Excepted(NewStepResult(i, step), StepFault(step)[1])
    ELSE RunBranch(pg, NewStepResult(i, step), step.text, StepAction(step.text),
                   out, last_error)

\* Advance without the break after a failed step
AdvanceNoBreak(prev, i, e) ==
    [executed_steps |-> Append(prev.executed_steps, e.sr),
     last_error |-> e.last_error,
     calls |-> prev.calls \o [k \in 1..Len(e.calls) |-> Set(e.calls[k], "step", i)],
     broke |-> FALSE]

\* Advance breaking before the append of a failed step_result
AdvanceDropFailed(prev, i, e) ==
    [executed_steps |-> IF e.sr.success THEN Append(prev.executed_steps, e.sr)
                        ELSE prev.executed_steps,
     last_error |-> e.last_error,
     calls |-> prev.calls \o [k \in 1..Len(e.calls) |-> Set(e.calls[k], "step", i)],
     broke |-> ~e.sr.success]

\* executed_steps.append(step_result) and the fail-fast break
Advance(prev, i, e) ==
    [executed_steps |-> Append(prev.executed_steps, e.sr),
     last_error |-> e.last_error,
     calls |-> prev.calls \o [k \in 1..Len(e.calls) |-> Set(e.calls[k], "step", i)],
     broke |-> ~e.sr.success]

\* executed_steps = [], last_error = None before the loop
LoopStart ==
    [executed_steps |-> <<>>, last_error |-> None, calls |-> <<>>, broke |-> FALSE]

\* the for loop: loop[i] is the state of the locals after i iterations, broke
\* telling that the loop was left by `break` (fail-fast on a step_result that
\* is not a success).  outs[i] is the browser's answer to step i's action.
StepLoop(pg, steps, outs) ==
    LET loop[i \in 0..Len(steps)] ==
            IF i = 0 THEN LoopStart
            ELSE IF loop[i - 1].broke THEN loop[i - 1]
            ELSE Advance(loop[i - 1], i,
                         ExecuteStep(pg, i, steps[i], outs[i], loop[i - 1].last_error))
    IN  loop[Len(steps)]

\* AllSuccess with any() in the place of all()
AnySuccess(executed_steps) ==
    \E k \in 1..Len(executed_steps) : executed_steps[k].success

\* all(step["success"] for step in executed_steps)
AllSuccess(executed_steps) ==
    \A k \in 1..Len(executed_steps) : executed_steps[k].success

\* the result dict built after the loop, with the executor calls made
LoopResult(l) ==
    [result |-> [success |-> AllSuccess(l.executed_steps),
                 steps |-> l.executed_steps,
                 error |-> IF ~AllSuccess(l.executed_steps) THEN l.last_error ELSE None],
     calls |-> l.calls]

\* ParseAndExecuteAiCommands running the steps only when the response is the
\* first plan
ParseFollowingAi(pg, ai_response, steps, outs) ==
    IF ai_response = <<"plan A">> THEN LoopResult(StepLoop(pg, steps, outs))
    ELSE LoopResult(StepLoop(pg, <<>>, outs))

\* parse_and_execute_ai_commands(ai_response, test_case): the result dict and
\* the executor calls made
ParseAndExecuteAiCommands(pg, ai_response, steps, outs) ==
    LoopResult(StepLoop(pg, steps, outs))

-----------------------------------------------------------------------------
(* ask_ai_to_execute and run_test_case *)

\* test_case.get("steps", []): [iter |-> TRUE, items |-> the list], or a JSON
\* value that cannot be iterated (null, a number): [iter |-> FALSE, items |-> <<>>]
EmptyList == [iter |-> TRUE, items |-> <<>>]

AiFailurePrefix == <<"AI diaoyong shibai: ">>
Unknown == <<"UNKNOWN">>
UnnamedTest == <<"weimingming ceshi">>

\* asyncio.sleep(2) between cases, in clock ticks
PacingDelay == 2

\* ChatCall with the request sent a second time
ChatCallRetried(ok) ==
    <<[call |-> "chat_completion", kwargs |-> <<>>, ok |-> ok, op |-> TRUE, step |-> 0],
      [call |-> "chat_completion", kwargs |-> <<>>, ok |-> ok, op |-> TRUE, step |-> 0]>>

\* the log entry of the chat_completion call
ChatCall(ok) ==
    <<[call |-> "chat_completion", kwargs |-> <<>>, ok |-> ok, op |-> TRUE, step |-> 0]>>

\* AskAi going on to the steps after a failed chat_completion call
AskAiIgnoringFailure(steps, ai) ==
    IF ~steps.iter
    THEN [raised |-> Some("TypeError"), returned |-> None, calls |-> <<>>]
    ELSE [raised |-> None, returned |-> None, calls |-> ChatCall(ai.ok)]

\* ask_ai_to_execute(test_case) up to its call of parse_and_execute_ai_commands,
\* once steps = test_case.get("steps", []) is read.  ai is the answer of
\* chat_completion ([ok, detail]: the response text, or str(e)).
\* raised: the exception that leaves the function (building the prompt
\* enumerates steps outside the try block); returned: the dict of the except
\* clause, or None when the function goes on to the steps.
AskAi(steps, ai) ==
    IF ~steps.iter
    THEN [raised |-> Some("TypeError"), returned |-> None, calls |-> <<>>]
    ELSE IF ~ai.ok
    THEN [raised |-> None,
          returned |-> Some([success |-> FALSE,
                             error |-> Some(AiFailurePrefix \o ai.detail)]),
          calls |-> ChatCall(FALSE)]
    ELSE [raised |-> None, returned |-> None, calls |-> ChatCall(TRUE)]

\* `return await self.parse_and_execute_ai_commands(ai_message, test_case)`
\* after the calls of a, p being what the steps gave
ReturnParsed(a, p) ==
    [raised |-> None, result |-> p.result, calls |-> a.calls \o p.calls]

\* what ask_ai_to_execute raises or returns when it went as a up to the steps
\* and the browser answers the steps with outs
AskAiThen(a, pg, ai_response, items, outs) ==
    IF a.raised # None
    THEN [raised |-> a.raised, result |-> <<>>, calls |-> <<>>]
    ELSE IF a.returned # None
    THEN [raised |-> None, result |-> a.returned[1], calls |-> a.calls]
    ELSE ReturnParsed(a, ParseAndExecuteAiCommands(pg, ai_response, items, outs))

\* ask_ai_to_execute(test_case) as a whole.  env.ai is the answer of
\* chat_completion, env.outs the browser's answers to the steps.
AskAiToExecute(pg, test_case, env) ==
    AskAiThen(AskAi(Get(test_case, "steps", EmptyList), env.ai), pg, env.ai.detail,
              Get(test_case, "steps", EmptyList).items, env.outs)

\* SCREENSHOTS_DIR / f"{test_id}_{get_timestamp()}.png", relative to REPORTS_DIR
ScreenshotPath(test_id, now) ==
    [dir |-> "screenshots", id |-> test_id, timestamp |-> now, ext |-> ".png"]

\* the executor call for the failure screenshot, as a log entry
ScreenshotCall(pg, path, out) ==
    <<Set(Call("screenshot", [path |-> path, full_page |-> TRUE],
               ExecutePlaywrightAction(pg, "screenshot",
                                       [path |-> path, full_page |-> TRUE], out))[1],
          "step", 0)>>

\* test_result = {...}
TestResult(test_case, test_id, x, start_time, end_time, screenshot_path) ==
    [id |-> test_id,
     name |-> Get(test_case, "name", UnnamedTest),
     description |-> Get(test_case, "description", <<>>),
     success |-> Get(x.result, "success", FALSE),
     duration |-> end_time - start_time,
     error |-> Get(x.result, "error", None),
     screenshot |-> screenshot_path,
     steps |-> Get(x.result, "steps", <<>>),
     start_time |-> start_time,
     end_time |-> end_time]

\* run_test_case after `execution_result = await self.ask_ai_to_execute(...)`
\* returned x at end_time: the screenshot of a failed case, the test_result
AfterExecution(pg, test_case, test_id, env, start_time, end_time, x, failed) ==
    IF x.raised # None
    THEN [raised |-> x.raised, calls |-> x.calls, now |-> end_time,
          execution_result |-> None, test_result |-> <<>>]
    ELSE IF failed /\ ~env.mkdir
    THEN [raised |-> Some("OSError"), calls |-> x.calls, now |-> end_time,
          execution_result |-> Some(x.result), test_result |-> <<>>]
    ELSE IF failed
    THEN [raised |-> None,
          calls |-> x.calls \o ScreenshotCall(pg, ScreenshotPath(test_id, end_time), env.shot),
          now |-> end_time + 1,
          execution_result |-> Some(x.result),
          test_result |-> TestResult(test_case, test_id, x, start_time, end_time,
                                     Some(ScreenshotPath(test_id, end_time)))]
    ELSE [raised |-> None, calls |-> x.calls, now |-> end_time,
          execution_result |-> Some(x.result),
          test_result |-> TestResult(test_case, test_id, x, start_time, end_time, None)]

\* end_time = datetime.now() once ask_ai_to_execute returned x
Timed(pg, test_case, env, now, x) ==
    AfterExecution(pg, test_case, Get(test_case, "id", Unknown), env, now,
                   now + Len(x.calls), x, ~Get(x.result, "success", FALSE))

\* run_test_case(test_case) started at clock value now.  env.mkdir tells whether
\* ensure_directory succeeds, env.shot is the browser's answer to the screenshot.
\* Every collaborator call takes one tick.
RunTestCase(pg, test_case, env, now) ==
    Timed(pg, test_case, env, now, AskAiToExecute(pg, test_case, env))

-----------------------------------------------------------------------------
(* Inputs: test cases, and the answers of the collaborators *)

MaxSteps == 2       \* longest declared step list
MaxCases == 2       \* longest suite

Str(text) == [str |-> TRUE, kind |-> "str", text |-> text]

\* steps that are not strings: the number 5, null, and the arrays and the
\* object ["dianji"], ["daohang"], [] and {"a": 1}
NotAStr == [str |-> FALSE, kind |-> "int", text |-> <<>>]
NullStep == [str |-> FALSE, kind |-> "NoneType", text |-> <<>>]
FloatStep == [str |-> FALSE, kind |-> "float", text |-> <<>>]
BoolStep == [str |-> FALSE, kind |-> "bool", text |-> <<>>]
ListClick == [str |-> FALSE, kind |-> "list", text |-> <<"dianji">>]
ListNav == [str |-> FALSE, kind |-> "list", text |-> <<"daohang">>]
ListEmpty == [str |-> FALSE, kind |-> "list", text |-> <<>>]
DictStep == [str |-> FALSE, kind |-> "dict", text |-> <<"a">>]

\* step texts, one or more per branch of the rule chain
TextGoto == Str(<<"daohang", "dao", " ", "https://", "a", ".", "com">>)
TextNavNoUrl == Str(<<"dakai", "shouye">>)
TextFill == Str(<<"sousuo", "kuang", "shuru", "'", "Playwright", "'">>)
TextFillNoQuote == Str(<<"sousuo", "kuang", "shuru", "guanjianci">>)
TextClickSubmit == Str(<<"dianji", "sousuo", "anniu">>)
TextClickGeneric == Str(<<"dianji", "lianjie">>)
TextVerifyTitle == Str(<<"yanzheng", "yemian", "biaoti">>)
TextVerifyOther == Str(<<"jiancha", "jieguo">>)
TextWait == Str(<<"dengdai", "jiazai">>)
TextDefault == Str(<<"zuo", "dian", "shenme">>)

\* the texts of the suite runs, and those of the single-case runs
SuiteTexts == {TextGoto}
CaseTexts == {TextGoto, TextNavNoUrl, TextFill, TextFillNoQuote, TextClickSubmit,
              TextClickGeneric, TextVerifyTitle, TextVerifyOther, TextWait,
              TextDefault, NotAStr, ListClick, DictStep}

SeqsUpTo(S, n) == UNION {[1..k -> S] : k \in 0..n}

StepsValues(texts) ==
    {[iter |-> TRUE, items |-> s] : s \in SeqsUpTo(texts, MaxSteps)}
        \cup {[iter |-> FALSE, items |-> <<>>]}

DigitStr(i) == <<"1", "2", "3", "4", "5", "6", "7", "8", "9">>[i]
CaseId(i) == <<"TC00", DigitStr(i)>>

\* the case records that can stand at position i of the input: every steps
\* value, and a record without id, description and steps
BareCase == [name |-> <<"bare">>]
CasesAt(i, texts) ==
    {[id |-> CaseId(i), name |-> <<"case">>, description |-> <<"desc">>, steps |-> sv] :
        sv \in StepsValues(texts)} \cup {BareCase}

SuitesOfLen(n, texts) ==
    {s \in [1..n -> UNION {CasesAt(i, texts) : i \in 1..n}] :
        \A i \in 1..n : s[i] \in CasesAt(i, texts)}
Suites(texts) == UNION {SuitesOfLen(n, texts) : n \in 0..MaxCases}

\* answers of chat_completion: two response texts, or an exception
AiTexts == {<<"plan A">>, <<"plan B">>}
AiOutcomes == {[ok |-> TRUE, detail |-> t] : t \in AiTexts}
                  \cup {[ok |-> FALSE, detail |-> <<"Connection error.">>]}

\* answers of the browser to one operation
OpOk == [ok |-> TRUE, detail |-> <<>>]
OpFail == [ok |-> FALSE, detail |-> <<"Timeout 30000ms exceeded.">>]
Titles == {<<"baidu", "yixia">>, <<"Playwright", " ", "docs">>, <<"Example">>}
BrowserOutcomes(action) ==
    IF action = "get_title"
    THEN {OpFail} \cup {[ok |-> TRUE, detail |-> t] : t \in Titles}
    ELSE {OpFail, OpOk}
AllOutcomes == BrowserOutcomes("get_title") \cup BrowserOutcomes("goto")

OutcomesFor(step) ==
    IF StepFault(step) # None \/ StepAction(step.text) = None THEN {OpOk}
    ELSE BrowserOutcomes(StepAction(step.text)[1].action)

\* the step does not reach the browser, so that nothing is awaited while it
\* runs: there is no page, the step raises, or no action is issued for it
NoAwait(pg, step) ==
    pg = "None" \/ StepFault(step) # None \/ StepAction(step.text) = None

\* the browser's answers to the action of a step run on pg
Answers(pg, step) == IF NoAwait(pg, step) THEN {OpOk} ELSE OutcomesFor(step)

\* The for loop from one await to the next: iteration i runs on the locals
\* prev, its action answered by out, and so do the iterations after it for as
\* long as they await nothing.  loop: the locals then, done: the iterations run.
RECURSIVE RunOn(_, _, _, _, _)
RunOn(prev, pg, steps, i, out) ==
    LET next == Advance(prev, i, ExecuteStep(pg, i, steps[i], out, prev.last_error))
    IN  IF next.broke \/ i = Len(steps) THEN [loop |-> next, done |-> i]
        ELSE IF NoAwait(pg, steps[i + 1]) THEN RunOn(next, pg, steps, i + 1, OpOk)
        ELSE [loop |-> next, done |-> i]

\* the calls made between the locals l0 and the locals l1
NewCalls(l0, l1) == SubSeq(l1.calls, Len(l0.calls) + 1, Len(l1.calls))

\* the answers outs as a list of n answers (the steps that awaited nothing
\* took none)
Padded(outs, n) == [k \in 1..n |-> IF k <= Len(outs) THEN outs[k] ELSE OpOk]

-----------------------------------------------------------------------------
(* ReportGenerator.generate_report on a reports directory *)

\* the result lists handed to the reporter: one entry per case, its success
\* and its duration
ResultsOfLen(n) == [1..n -> [success : BOOLEAN, duration : {1, 2}]]

ReportInputs == UNION {ResultsOfLen(n) : n \in 0..MaxCases}

\* a summary file of an earlier run; content None: not parsable as JSON
OldSummary == [ts |-> 0, content |-> Some([timestamp |-> 0, total |-> 1, passed |-> 1,
                                           failed |-> 0, duration |-> 1])]

BrokenSummary == [ts |-> -1, content |-> None]

\* the reports directory before the call: its summary files, chart files and
\* HTML reports
ReportDirs ==
    {[summaries |-> ss, charts |-> {}, reports |-> {}] :
        ss \in SUBSET {OldSummary, BrokenSummary}}

\* the directory as ReportGenerator.__init__ creates it
EmptyDir == [summaries |-> {}, charts |-> {}, reports |-> {}]

\* the reports directory at the start of a run: new, or with the summary of
\* an earlier run
RunnerDirs == {EmptyDir, [EmptyDir EXCEPT !.summaries = {OldSummary}]}

\* sum(1 for r in test_results if r.get("success", False))
Passed(results) == Cardinality({i \in 1..Len(results) : results[i].success})

\* sum(r.get("duration", 0) for r in test_results)
RECURSIVE TotalDuration(_)
TotalDuration(results) ==
    IF results = <<>> THEN 0
    ELSE results[1].duration + TotalDuration(Tail(results))

\* plt.savefig of the chart name for this timestamp
SaveFig(dir, name, timestamp) ==
    [dir EXCEPT !.charts = @ \cup {<<name, timestamp>>}]

\* _generate_pie_chart: the file name
GeneratePieChart(timestamp) == <<"test_chart", timestamp>>

\* the files of the directory other than the summary of this timestamp
OtherSummaries(dir, timestamp) == {f \in dir.summaries : f.ts # timestamp}

\* _save_summary: the write may fail in open (no file) or in json.dump (a
\* truncated file is left); the exception is swallowed
SaveSummary(dir, timestamp, total, passed, failed, duration, w) ==
    CASE w = "ok" ->
            [dir EXCEPT !.summaries = OtherSummaries(dir, timestamp) \cup
                {[ts |-> timestamp,
                  content |-> Some([timestamp |-> timestamp, total |-> total,
                                    passed |-> passed, failed |-> failed,
                                    duration |-> duration])]}]
      [] w = "dump" ->
            [dir EXCEPT !.summaries = OtherSummaries(dir, timestamp) \cup
                {[ts |-> timestamp, content |-> None]}]
      [] OTHER -> dir

\* the summaries that json.load could read
Readable(dir) == {f \in dir.summaries : f.content # None}

\* _generate_trend_chart: '' when no summary could be read, else the pair of
\* file names
GenerateTrendChart(dir, timestamp) ==
    IF Readable(dir) = {} THEN <<>>
    ELSE <<<<"test_trend_bar", timestamp>>, <<"test_trend_time", timestamp>>>>

\* _generate_growth_chart: '' when no summary could be read
GenerateGrowthChart(dir, timestamp) ==
    IF Readable(dir) = {} THEN <<>> ELSE <<"test_growth", timestamp>>

\* the directory once the trend and growth charts are saved
AfterCharts(dir, timestamp) ==
    IF Readable(dir) = {} THEN dir
    ELSE SaveFig(SaveFig(SaveFig(dir, "test_trend_bar", timestamp),
                         "test_trend_time", timestamp), "test_growth", timestamp)

\* _generate_html_report: the report file
HtmlReport(results, bar, time, growth, pie, timestamp) ==
    [ts |-> timestamp, total |-> Len(results), passed |-> Passed(results),
     failed |-> Len(results) - Passed(results), bar |-> bar, time |-> time,
     growth |-> growth, pie |-> pie]

\* generate_report from the summary on, dir2 being the directory after
\* _save_summary and trend what _generate_trend_chart returned:
\* `bar, time = trend` raises ValueError unless trend has two items
ReportFrom(results, dir2, trend, pie, timestamp) ==
    IF Len(trend) # 2
    THEN [raised |-> Some("ValueError"), html |-> None, dir |-> dir2]
    ELSE [raised |-> None,
          html |-> Some(<<"test_report", timestamp>>),
          dir |-> [AfterCharts(dir2, timestamp) EXCEPT !.reports = @ \cup
                    {HtmlReport(results, trend[1], trend[2],
                                GenerateGrowthChart(dir2, timestamp), pie, timestamp)}]]

\* generate_report up to _save_summary
SummarySaved(results, dir, timestamp, w) ==
    SaveSummary(SaveFig(dir, "test_chart", timestamp), timestamp, Len(results),
                Passed(results), Len(results) - Passed(results),
                TotalDuration(results), w)

\* generate_report(test_results) at time timestamp, w telling how the write
\* of the summary file goes
GenerateReportIn(results, dir, timestamp, w) ==
    IF results = <<>>
    THEN [raised |-> None, html |-> None, dir |-> dir]
    ELSE ReportFrom(results, SummarySaved(results, dir, timestamp, w),
                    GenerateTrendChart(SummarySaved(results, dir, timestamp, w), timestamp),
                    GeneratePieChart(timestamp), timestamp)

-----------------------------------------------------------------------------
(* run_all_tests *)

\* the types of the variables, within one run of run_all_tests
TypeOK ==
    /\ pc \in {"setup", "loop", "case", "sleep", "finally", "report", "done",
              "aborted", "direct", "main", "load", "construct", "exited"}
    /\ setup \in {"start", "launch", "new_context", "new_page", "returned", "raised"}
    /\ idx \in 1..(Len(test_cases) + 1)
    /\ browser \in {"None", "open", "closed"}
    /\ context \in {"None", "open"}
    /\ page \in {"None", "open"}
    /\ Len(test_results) <= Len(test_cases)

InitRunner ==
    /\ pc = "setup"
    /\ idx = 1
    /\ browser = "None"
    /\ context = "None"
    /\ page = "None"
    /\ test_results = <<>>
    /\ log = <<>>
    /\ clock = 0
    /\ cur = None
    /\ raised = None
    /\ reported = None
    /\ reports_dir \in RunnerDirs
    /\ setup = "start"
    /\ called = None

Init == test_cases \in Suites(SuiteTexts) /\ InitRunner

InitCase ==
    /\ test_cases \in {<<c>> : c \in CasesAt(1, CaseTexts)}
    /\ InitRunner

\* The same run_test_case replayed with every response text chat_completion
\* can return, the browser answering as in env (empty when the call failed).
Replays(pg, test_case, env, now) ==
    IF ~env.ai.ok THEN {}
    ELSE {RunTestCase(pg, test_case, [env EXCEPT !.ai = a], now) :
            a \in {b \in AiOutcomes : b.ok}}

AfterCase(i) == IF i > Len(test_cases) THEN "finally" ELSE "loop"

\* the log entry of one call of setup_browser
SetupCall(name, ok) ==
    [call |-> name, kwargs |-> <<>>, ok |-> ok, op |-> TRUE, step |-> 0, case |-> 0]

\* One await of setup_browser answered: setup_browser goes on to its next
\* await, or returns into its caller (the for loop of run_all_tests, or the
\* client), or the exception leaves it and its caller (in run_all_tests the
\* call stands before the try).
Awaited(name, ok, next) ==
    /\ log' = Append(log, SetupCall(name, ok))
    /\ setup' = IF ok THEN next ELSE "raised"
    /\ raised' = IF ok THEN raised ELSE Some("SetupError")
    /\ pc' = IF ~ok THEN "aborted"
             ELSE IF next = "returned" /\ pc = "setup" THEN AfterCase(1)
             ELSE pc

\* playwright = await async_playwright().start()
SetupStart ==
    /\ pc \in {"setup", "direct"}
    /\ setup = "start"
    /\ \E ok \in BOOLEAN : Awaited("start", ok, "launch")
    /\ UNCHANGED <<test_cases, idx, browser, context, page, test_results, clock, cur,
                   reported, reports_dir, called>>

\* self.browser = await playwright.chromium.launch(headless=False)
SetupLaunch ==
    /\ pc \in {"setup", "direct"}
    /\ setup = "launch"
    /\ \E ok \in BOOLEAN :
        /\ Awaited("launch", ok, "new_context")
        /\ browser' = IF ok THEN "open" ELSE browser
    /\ UNCHANGED <<test_cases, idx, context, page, test_results, clock, cur,
                   reported, reports_dir, called>>

\* self.context = await self.browser.new_context(...)
SetupNewContext ==
    /\ pc \in {"setup", "direct"}
    /\ setup = "new_context"
    /\ \E ok \in BOOLEAN :
        /\ Awaited("new_context", ok, "new_page")
        /\ context' = IF ok THEN "open" ELSE context
    /\ UNCHANGED <<test_cases, idx, browser, page, test_results, clock, cur,
                   reported, reports_dir, called>>

\* self.page = await self.context.new_page(), and the return
SetupNewPage ==
    /\ pc \in {"setup", "direct"}
    /\ setup = "new_page"
    /\ \E ok \in BOOLEAN :
        /\ Awaited("new_page", ok, "returned")
        /\ page' = IF ok THEN "open" ELSE page
    /\ UNCHANGED <<test_cases, idx, browser, context, test_results, clock, cur,
                   reported, reports_dir, called>>

\* setup_browser, await by await
SetupBrowser == SetupStart \/ SetupLaunch \/ SetupNewContext \/ SetupNewPage

\* the log entry of asyncio.sleep(2) after case i
SleepCall(i) ==
    [call |-> "sleep", kwargs |-> <<>>, ok |-> TRUE, op |-> TRUE, step |-> 0, case |-> i]

\* the calls of case i, tagged with the case
Tagged(calls, i) == [k \in 1..Len(calls) |-> Set(calls[k], "case", i)]

\* AppendResult putting the newest result first
PrependResult(results, result) == <<result>> \o results

\* self.test_results.append(result)
AppendResult(results, result) == Append(results, result)

\* the declared steps of the invocation f
Items(f) == Get(f.test_case, "steps", EmptyList).items

\* the for loop of parse_and_execute_ai_commands is not over in f
Looping(f) ==
    f.phase = "steps" /\ f.returned = None /\ ~f.loop.broke /\ f.done < Len(Items(f))

\* what ask_ai_to_execute returns in f: the dict of the except clause, or the
\* one built after the loop
Returned(f) ==
    IF f.returned # None
    THEN [raised |-> None, result |-> f.returned[1], calls |-> f.calls]
    ELSE [raised |-> None, result |-> LoopResult(f.loop).result, calls |-> f.calls]

\* the collaborators' answers during f, with those of the rest of run_test_case
EnvOf(f, mkdir, shot) ==
    [ai |-> f.ai[1], outs |-> Padded(f.outs, Len(Items(f))), mkdir |-> mkdir,
     shot |-> shot]

\* the rest of run_test_case in f once ask_ai_to_execute returned: end_time,
\* the screenshot of a failed case, the test_result
Rest(f, mkdir, shot) ==
    Timed(page, f.test_case, EnvOf(f, mkdir, shot), f.start_time, Returned(f))

\* the rest of run_test_case in f awaits the screenshot; r is what the rest
\* gives once the screenshot is answered
AwaitsShot(f, r) ==
    /\ Len(r.calls) > Len(f.calls)
    /\ r.calls[Len(r.calls)].op

\* the state once run_test_case returned (or raised) r from f, having made the
\* calls since: the result is appended to self.test_results, or the exception
\* leaves the for loop
CaseFinished(f, calls, r, replays) ==
    /\ cur' = Some([f EXCEPT !.phase = IF r.raised # None THEN "raised" ELSE "returned",
                             !.execution_result = r.execution_result,
                             !.calls = r.calls,
                             !.raised = r.raised,
                             !.test_result = r.test_result,
                             !.replays = replays])
    /\ log' = log \o Tagged(calls, f.case)
    /\ clock' = r.now
    /\ IF r.raised # None
       THEN /\ raised' = r.raised
            /\ pc' = "finally"
            /\ UNCHANGED test_results
       ELSE /\ test_results' = AppendResult(test_results, r.test_result)
            /\ pc' = "sleep"
            /\ UNCHANGED raised

\* The state once run_test_case went on to f, having made the calls since the
\* await before: it waits for the action of its next step or for the
\* screenshot, or it went on to its end without another await.  mkdir tells
\* whether ensure_directory succeeds.
WentOn(f, calls, mkdir) ==
    IF f.raised # None
    THEN /\ cur' = Some(f)
         /\ raised' = f.raised
         /\ pc' = "finally"
         /\ UNCHANGED <<log, clock, test_results>>
    ELSE IF Looping(f)
    THEN /\ cur' = Some(f)
         /\ log' = log \o Tagged(calls, f.case)
         /\ clock' = clock + Len(calls)
         /\ pc' = "case"
         /\ UNCHANGED <<raised, test_results>>
    ELSE IF AwaitsShot(f, Rest(f, mkdir, OpOk))
    THEN /\ cur' = Some([f EXCEPT !.phase = "screenshot"])
         /\ log' = log \o Tagged(calls, f.case)
         /\ clock' = clock + Len(calls)
         /\ pc' = "case"
         /\ UNCHANGED <<raised, test_results>>
    ELSE CaseFinished(f, calls \o NewCalls(f, Rest(f, mkdir, OpOk)),
                      Rest(f, mkdir, OpOk),
                      Replays(page, f.test_case, EnvOf(f, mkdir, OpOk), f.start_time))

\* the locals of run_test_case(test_case) once it has gone as a through
\* ask_ai_to_execute up to the steps
CaseStarted(test_case, ai, a) ==
    [test_case |-> test_case, case |-> idx, start_time |-> clock,
     ai |-> IF a.calls = <<>> THEN None ELSE Some(ai),
     returned |-> a.returned, loop |-> LoopStart, done |-> 0,
     outs |-> <<>>, calls |-> a.calls,
     phase |-> IF a.raised # None THEN "raised" ELSE "steps",
     execution_result |-> None, raised |-> a.raised,
     test_result |-> <<>>, replays |-> {}]

\* run_test_case(test_case) of the next case: the TypeError of a steps value
\* that cannot be enumerated, or the answer of chat_completion and what
\* follows it up to the next await
StartCase ==
    /\ pc = "loop"
    /\ idx <= Len(test_cases)
    /\ \E ai \in AiOutcomes, mkdir \in BOOLEAN :
        WentOn(CaseStarted(test_cases[idx], ai,
                           AskAi(Get(test_cases[idx], "steps", EmptyList), ai)),
               AskAi(Get(test_cases[idx], "steps", EmptyList), ai).calls, mkdir)
    /\ UNCHANGED <<test_cases, idx, browser, context, page, reported,
                   reports_dir, setup, called>>

\* the locals f once the loop ran on to b, the first action answered by out
StepsRun(f, out, b) ==
    [f EXCEPT !.loop = b.loop, !.done = b.done,
              !.outs = Padded(f.outs \o <<out>>, b.done),
              !.calls = f.calls \o NewCalls(f.loop, b.loop)]

\* the action of the next step is answered: its step_result is appended, and
\* the case goes on up to the next await
RunSteps ==
    /\ pc = "case"
    /\ Looping(cur[1])
    /\ \E out \in Answers(page, Items(cur[1])[cur[1].done + 1]), mkdir \in BOOLEAN :
        WentOn(StepsRun(cur[1], out,
                        RunOn(cur[1].loop, page, Items(cur[1]), cur[1].done + 1, out)),
               NewCalls(cur[1].loop,
                        RunOn(cur[1].loop, page, Items(cur[1]), cur[1].done + 1, out).loop),
               mkdir)
    /\ UNCHANGED <<test_cases, idx, browser, context, page, reported,
                   reports_dir, setup, called>>

\* the screenshot of a failed case is answered: the test_result is built and
\* self.test_results.append(result)
FinishCase ==
    /\ pc = "case"
    /\ cur[1].phase = "screenshot"
    /\ \E shot \in {OpOk, OpFail} :
        CaseFinished(cur[1], NewCalls(cur[1], Rest(cur[1], TRUE, shot)),
                     Rest(cur[1], TRUE, shot),
                     Replays(page, cur[1].test_case, EnvOf(cur[1], TRUE, shot),
                             cur[1].start_time))
    /\ UNCHANGED <<test_cases, idx, browser, context, page, reported, reports_dir,
                   setup, called>>

\* Pace without the sleep between cases
PaceSkipped(calls, now, i) == [log |-> calls, clock |-> now]

\* await asyncio.sleep(2): the call log and the clock after the sleep that
\* follows case i
Pace(calls, now, i) ==
    [log |-> Append(calls, SleepCall(i)), clock |-> now + PacingDelay]

\* await asyncio.sleep(2), and the for loop goes on to the next case
Sleep ==
    /\ pc = "sleep"
    /\ log' = Pace(log, clock, idx).log
    /\ clock' = Pace(log, clock, idx).clock
    /\ idx' = idx + 1
    /\ pc' = AfterCase(idx + 1)
    /\ UNCHANGED <<test_cases, browser, context, page, test_results, cur, raised,
                   reported, reports_dir, setup, called>>

\* one iteration of the for loop, await by await: run_test_case, append, sleep
RunNextCase == StartCase \/ RunSteps \/ FinishCase \/ Sleep

\* finally: close_browser; closing may raise
CloseBrowser ==
    /\ pc = "finally"
    /\ \E ok \in BOOLEAN :
        /\ browser # "None" \/ ok
        /\ browser' = IF browser # "None" /\ ok THEN "closed" ELSE browser
        /\ raised' = IF ok THEN raised ELSE Some("CloseError")
        /\ pc' = IF ok /\ raised = None THEN "report" ELSE "aborted"
        /\ log' = IF browser # "None"
                  THEN Append(log, [call |-> "close", kwargs |-> <<>>, ok |-> ok,
                                    op |-> TRUE, step |-> 0, case |-> 0])
                  ELSE log
    /\ UNCHANGED <<test_cases, idx, context, page, test_results, clock, cur, reported, reports_dir, setup, called>>

\* self.report_generator.generate_report(self.test_results), called outside
\* any try: the files it writes, and the ValueError that leaves run_all_tests.
\* w tells how the write of the summary file goes.
GenerateReport ==
    /\ pc = "report"
    /\ \E w \in {"ok", "open", "dump"} :
        LET r == GenerateReportIn(test_results, reports_dir, clock, w)
        IN  /\ reports_dir' = r.dir
            /\ raised' = r.raised
            /\ pc' = IF r.raised = None THEN "done" ELSE "aborted"
    /\ reported' = Append(reported, test_results)
    /\ clock' = clock + 1
    /\ UNCHANGED <<test_cases, idx, browser, context, page, test_results, log, cur,
                   setup, called>>

Next == SetupBrowser \/ RunNextCase \/ CloseBrowser \/ GenerateReport

Spec == Init /\ [][Next]_vars

\* the same runner on a suite of one case drawn from every kind of step text
SpecCase == InitCase /\ [][Next]_vars

-----------------------------------------------------------------------------
(* Properties of one run_test_case invocation (the one recorded in cur) *)

\* the declared steps of the case last run
Declared == Get(cur[1].test_case, "steps", EmptyList).items

\* ask_ai_to_execute returned a dict (nothing was raised while it ran)
Executed == cur # None /\ cur[1].execution_result # None

\* the StepResults of the dict that ask_ai_to_execute returned
Produced == Get(cur[1].execution_result[1], "steps", <<>>)

\* run_test_case returned a TestCaseResult
Reported == cur # None /\ cur[1].phase = "returned"

\* the chat_completion call of the case was made and returned
AdvisoryOk ==
    /\ Len(cur[1].calls) >= 1
    /\ cur[1].calls[1].call = "chat_completion"
    /\ cur[1].calls[1].ok

\* the chat_completion call of the case was made and raised
AdvisoryFailed ==
    /\ Len(cur[1].calls) >= 1
    /\ cur[1].calls[1].call = "chat_completion"
    /\ ~cur[1].calls[1].ok

\* the executor calls of the case, as positions of cur[1].calls
ExecutorCalls == {m \in 1..Len(cur[1].calls) : cur[1].calls[m].call \in ActionKinds}

\* k is the first step whose StepResult is a failure
FirstFailure(k) ==
    /\ k \in 1..Len(Produced)
    /\ ~Produced[k].success
    /\ \A j \in 1..(k - 1) : Produced[j].success

\* C1: fail-fast.  When the advisory call succeeded and step k is the first
\* step whose StepResult is a failure, the step list has exactly k entries, no
\* executor call belongs to a step after k, and the only executor call that
\* belongs to no step is the failure screenshot, issued last.
C1_FailFast ==
    (Executed /\ AdvisoryOk) =>
        \A k \in 1..Len(Declared) :
            FirstFailure(k) =>
                /\ Len(Produced) = k
                /\ \A m \in ExecutorCalls :
                    /\ cur[1].calls[m].step <= k
                    /\ cur[1].calls[m].step = 0 =>
                        (cur[1].calls[m].call = "screenshot" /\ m = Len(cur[1].calls))

\* a two-step case whose first step issued an action that failed: one
\* StepResult, then the screenshot
C1_Witness ==
    /\ Executed /\ AdvisoryOk /\ Reported
    /\ Len(Declared) = 2
    /\ FirstFailure(1)
    /\ \E m \in ExecutorCalls : cur[1].calls[m].step = 1 /\ ~cur[1].calls[m].ok
    /\ cur[1].calls[Len(cur[1].calls)].call = "screenshot"

\* C2 as stated: the step list is no longer than the declared one, and it is
\* strictly shorter if and only if the case failed.
C2_Original ==
    Reported =>
        /\ Len(cur[1].test_result.steps) <= Len(Declared)
        /\ (Len(cur[1].test_result.steps) < Len(Declared)) <=> ~cur[1].test_result.success

\* C2 amended: the step list is no longer than the declared one; a strictly
\* shorter list implies a failed case; a failed case is one whose advisory call
\* failed (empty list) or whose list ends with its only failing StepResult,
\* which may be the last declared step (list as long as the declared one).
C2_Amended ==
    Reported =>
        /\ Len(cur[1].test_result.steps) <= Len(Declared)
        /\ (Len(cur[1].test_result.steps) < Len(Declared)) => ~cur[1].test_result.success
        /\ ~cur[1].test_result.success =>
            \/ AdvisoryFailed /\ cur[1].test_result.steps = <<>>
            \/ AdvisoryOk /\ FirstFailure(Len(cur[1].test_result.steps))

\* a case that failed at its last declared step: failed, and the list is full
C2_Witness ==
    /\ Reported
    /\ ~cur[1].test_result.success
    /\ Len(Declared) = 2
    /\ Len(cur[1].test_result.steps) = 2

\* C3: TestCaseResult.success is true if and only if the advisory call
\* succeeded, every produced StepResult is a success and there is one
\* StepResult per declared step.
C3_SuccessIff ==
    Reported =>
        (cur[1].test_result.success <=>
            /\ AdvisoryOk
            /\ \A j \in 1..Len(cur[1].test_result.steps) : cur[1].test_result.steps[j].success
            /\ Len(cur[1].test_result.steps) = Len(Declared))

\* a passed two-step case
C3_Witness ==
    /\ Reported
    /\ cur[1].test_result.success
    /\ Len(Declared) = 2
    /\ Cardinality(ExecutorCalls) = 2

\* C4: the StepResults are a prefix of the declared steps in order: entry j
\* has step number j and the j-th declared text; the executor calls are
\* logged in step order (each returned before the next was issued).
C4_PrefixInOrder ==
    Executed =>
        /\ \A j \in 1..Len(Produced) :
            /\ j <= Len(Declared)
            /\ Produced[j].step = j
            /\ Produced[j].description = Declared[j]
        /\ \A m, n \in ExecutorCalls :
            (m < n /\ cur[1].calls[n].step # 0) =>
                (cur[1].calls[m].step # 0 /\ cur[1].calls[m].step < cur[1].calls[n].step)

\* two different declared steps, both executed with an action each
C4_Witness ==
    /\ Executed
    /\ Len(Produced) = 2
    /\ Declared[1] # Declared[2]
    /\ \E m, n \in ExecutorCalls : cur[1].calls[m].step = 1 /\ cur[1].calls[n].step = 2

-----------------------------------------------------------------------------
(* Properties of run_all_tests *)

\* run_all_tests left its try/finally without an exception
Completed == pc \in {"report", "done"}

\* C5: when run_all_tests completes on a fresh runner, the result list has one
\* entry per input case and entry i carries the id of input case i, whatever
\* mix of passed and failed cases occurred.
C5_ResultsInInputOrder ==
    Completed =>
        /\ Len(test_results) = Len(test_cases)
        /\ \A i \in 1..Len(test_results) :
            test_results[i].id = Get(test_cases[i], "id", Unknown)

\* a completed two-case run whose first case failed and second passed
C5_Witness ==
    /\ pc = "done"
    /\ Len(test_cases) = 2
    /\ Len(test_results) = 2
    /\ ~test_results[1].success
    /\ test_results[2].success
    /\ test_results[1].id # test_results[2].id

\* C6 as stated: once the session is set up, no fault of one case keeps
\* run_all_tests from running every case: whenever the for loop has been
\* left, there is one result per input case.
C6_NoCaseFaultAbortsSuite ==
    (pc \in {"finally", "report", "done"} \/ (pc = "aborted" /\ page = "open")) =>
        Len(test_results) = Len(test_cases)

-----------------------------------------------------------------------------
(* Properties of the advisory call and of the failure screenshot *)

AiFailureDetail == <<"Connection error.">>

\* C7: when the chat_completion call fails, the case is failed with the error
\* "AI diaoyong shibai: <detail>", an empty step list and no executor call for
\* any step.
C7_AdvisoryFailure ==
    (Reported /\ AdvisoryFailed) =>
        /\ ~cur[1].test_result.success
        /\ cur[1].test_result.error = Some(AiFailurePrefix \o AiFailureDetail)
        /\ cur[1].test_result.steps = <<>>
        /\ \A m \in ExecutorCalls : cur[1].calls[m].step = 0

\* the advisory call of a case with two declared steps failed
C7_Witness ==
    /\ Reported /\ AdvisoryFailed
    /\ Len(Declared) = 2
    /\ ~cur[1].test_result.success

\* the positions of the log that hold a chat_completion call
ChatCalls == {m \in 1..Len(log) : log[m].call = "chat_completion"}

\* C8: chat_completion is called at most once per test case, and the call is
\* logged (it has returned or raised) before the first executor call of the
\* same case is issued.
C8_AdvisoryOnceAndFirst ==
    \A m \in ChatCalls :
        \A n \in 1..Len(log) :
            (n # m /\ log[n].case = log[m].case) =>
                (log[n].call # "chat_completion" /\ m < n)

\* a case with an advisory call followed by two step actions
C8_Witness ==
    \E m \in ChatCalls :
        \E n1, n2 \in 1..Len(log) :
            /\ m < n1 /\ n1 < n2
            /\ log[n1].case = log[m].case /\ log[n2].case = log[m].case
            /\ log[n1].step = 1 /\ log[n2].step = 2

\* C9: the response text does not alter the execution: replaying the case
\* with any other successful response text and the same browser answers gives
\* the same executor calls, the same StepResults and the same success value.
C9_AdvisoryTextIgnored ==
    (cur # None /\ cur[1].replays # {}) =>
        \A v \in cur[1].replays :
            /\ v.calls = cur[1].calls
            /\ v.raised = cur[1].raised
            /\ v.execution_result = cur[1].execution_result

\* a case with two executed steps, replayed under both response texts
C9_Witness ==
    /\ Executed /\ AdvisoryOk
    /\ cur[1].replays # {}
    /\ Len(Produced) = 2
    /\ Cardinality(ExecutorCalls) >= 2

\* the screenshot calls of the case last run
ScreenshotCalls == {m \in ExecutorCalls : cur[1].calls[m].call = "screenshot"}

\* run_test_case is over for the case, by a return or by an exception, after
\* ask_ai_to_execute returned its dict: the outcome of the case is decided
Decided == Executed /\ cur[1].phase \in {"returned", "raised"}

\* C10 as stated: every case whose outcome is failed comes with exactly one
\* screenshot call and a passed case with none, and the success value of the
\* TestCaseResult is the one ask_ai_to_execute returned, whatever the
\* screenshot call answered.
C10_ScreenshotOnFailureOnly ==
    /\ Decided =>
        Cardinality(ScreenshotCalls) =
            IF Get(cur[1].execution_result[1], "success", FALSE) THEN 0 ELSE 1
    /\ Reported =>
        cur[1].test_result.success = Get(cur[1].execution_result[1], "success", FALSE)

\* C11 as stated: the screenshot field is set only for a failed case whose
\* screenshot action succeeded (the image was written), it then has the form
\* screenshots/<case-id>_<timestamp>.png, and a failed case whose screenshot
\* action returned a failure has no screenshot reference.
C11_ScreenshotOnlyWhenWritten ==
    Reported =>
        /\ cur[1].test_result.screenshot # None =>
            /\ ~cur[1].test_result.success
            /\ \E m \in ScreenshotCalls : cur[1].calls[m].ok
            /\ cur[1].test_result.screenshot[1].dir = "screenshots"
            /\ cur[1].test_result.screenshot[1].id = cur[1].test_result.id
            /\ cur[1].test_result.screenshot[1].ext = ".png"
        /\ (~cur[1].test_result.success /\ \E m \in ScreenshotCalls : ~cur[1].calls[m].ok) =>
            cur[1].test_result.screenshot = None

-----------------------------------------------------------------------------
(* Properties of the browser session and of the hand-over to the reporter *)

\* a close_browser call reached the browser
CloseCalls == {m \in 1..Len(log) : log[m].call = "close"}

\* C12 as stated: in every execution of run_all_tests in which a browser was
\* launched, browser.close() has been called by the time run_all_tests returns
\* or raises, also when context or page creation failed after the launch.
C12_BrowserReleasedOnEveryExit ==
    (pc \in {"done", "aborted"} /\ browser # "None") => CloseCalls # {}

\* C13 as stated: when close_browser fails after the last case, the results
\* collected are still handed to the reporter; the reporter never receives the
\* list before every case has finished.
C13_ReportedDespiteCloseFailure ==
    /\ (pc = "aborted" /\ raised = Some("CloseError") /\ idx > Len(test_cases)) =>
            reported = Some(test_results)
    /\ reported # None =>
            (idx > Len(test_cases) /\ reported = Some(test_results)
                /\ Len(test_results) = Len(test_cases))

-----------------------------------------------------------------------------
(* The runner's methods called by a client itself: setup_browser, then       *)
(* execute_playwright_action or parse_and_execute_ai_commands                *)

MaxCalls == 2       \* most execute_playwright_action calls of one client

InitDirect ==
    /\ test_cases = <<>>
    /\ pc = "direct"
    /\ idx = 1
    /\ browser = "None"
    /\ context = "None"
    /\ page = "None"
    /\ test_results = <<>>
    /\ log = <<>>
    /\ clock = 0
    /\ cur = None
    /\ raised = None
    /\ reported = None
    /\ reports_dir = EmptyDir
    /\ setup = "start"
    /\ called = None

\* the action names a client passes: the nine kinds and one that is none of them
ActionNames == ActionKinds \cup {"hover"}

\* the keyword arguments a client passes with an action: none, or the ones
\* the branch reads
KwargsFor(action) ==
    {<<>>} \cup
    (CASE action = "goto" -> {[url |-> <<"https://", "a", ".", "com">>]}
       [] action \in {"click", "wait_for_selector", "get_text"} ->
            {[selector |-> GenericSelector]}
       [] action \in {"fill", "type"} ->
            {[selector |-> SearchBoxSelector, text |-> <<"Playwright">>]}
       [] action = "wait" -> {[timeout |-> 1000], [timeout |-> 2000]}
       [] action = "screenshot" -> {[path |-> "shot.png", full_page |-> TRUE]}
       [] OTHER -> {})

\* the browser's answers to the operation of an action
DirectOutcomes(action) ==
    IF action \in {"get_title", "get_text"} THEN BrowserOutcomes("get_title")
    ELSE BrowserOutcomes(action)

\* the state after execute_playwright_action(action, **kwargs) returned r
DirectReturn(action, kwargs, out, r) ==
    /\ called' = Some([n |-> clock + 1, pg |-> page,
                       action |-> action, kwargs |-> kwargs, out |-> out,
                       result |-> r.result, op |-> r.op, raised |-> r.raised])
    /\ raised' = r.raised
    /\ log' = IF r.op
              THEN Append(log, [call |-> action, kwargs |-> kwargs,
                                ok |-> r.result.success, op |-> TRUE,
                                step |-> 0, case |-> 0])
              ELSE log
    /\ clock' = clock + 1

\* runner.execute_playwright_action(action, **kwargs) called by the client,
\* at any moment: before setup_browser, between two of its awaits, or after
DirectExecute ==
    /\ pc = "direct"
    /\ clock < MaxCalls
    /\ \E action \in ActionNames :
        \E kwargs \in KwargsFor(action), out \in DirectOutcomes(action) :
            DirectReturn(action, kwargs, out,
                         ExecutePlaywrightAction(page, action, kwargs, out))
    /\ UNCHANGED <<test_cases, pc, idx, browser, context, page, test_results, cur,
                   reported, reports_dir, setup>>

NextExec == SetupBrowser \/ DirectExecute

\* a client that calls setup_browser (or not) and, in tasks of its own, the
\* executor
SpecExec == InitDirect /\ [][NextExec]_vars

\* the executor call recorded in called
ExecuteCalled == called # None

\* C14: for every action kind and every fault of the browser operation the
\* executor raises nothing and returns success = false with the fault's
\* message as error; an action name outside the nine kinds gives
\* success = false with an error as well.
C14_FaultsBecomeResults ==
    ExecuteCalled =>
        /\ called[1].raised = None
        /\ (called[1].op /\ ~called[1].out.ok) =>
            (~called[1].result.success /\ Get(called[1].result, "error", <<>>) = called[1].out.detail)
        /\ (called[1].pg # "None" /\ called[1].action \notin ActionKinds) =>
            (~called[1].result.success /\ Get(called[1].result, "error", <<>>) # <<>> /\ ~called[1].op)

\* a click on an open page whose browser operation raised
C14_Witness ==
    /\ ExecuteCalled
    /\ called[1].pg = "open"
    /\ called[1].action = "click"
    /\ called[1].op /\ ~called[1].out.ok
    /\ called[1].result = [success |-> FALSE, error |-> OpFail.detail]

\* C15: an executor call made while there is no page returns success = false
\* with the "page not initialized" error, raises nothing, starts no browser
\* operation and leaves browser, context, page, test_results and the call log
\* as they were.
C15_NoPageNoEffect ==
    [][(pc = "direct" /\ page = "None" /\ called' # called /\ called' # None) =>
        /\ called'[1].result = [success |-> FALSE, error |-> <<"yemian wei chushihua">>]
        /\ called'[1].raised = None
        /\ raised' = None
        /\ ~called'[1].op
        /\ UNCHANGED <<browser, context, page, test_results, log>>]_vars

\* a goto passed to the runner while setup_browser waits for new_page: the
\* browser and the context are there, the page is not
C15_Witness ==
    /\ ExecuteCalled
    /\ called[1].pg = "None"
    /\ called[1].action = "goto"
    /\ called[1].kwargs # <<>>
    /\ ~called[1].result.success
    /\ setup = "new_page" /\ browser = "open" /\ context = "open" /\ page = "None"
    /\ Len(log) = 3

-----------------------------------------------------------------------------
(* parse_and_execute_ai_commands called by a client itself, on step texts    *)
(* made of every combination of rule keywords                                *)

\* the keywords a composed text is made of, in the order they are written
KeywordOrder == <<"daohang", "sousuo", "shuru", "dianji", "anniu", "yanzheng",
                  "biaoti", "dengdai">>
KeywordText(S) == SelectSeq(KeywordOrder, LAMBDA k : k \in S)

Filler == <<"qing">>
QuotePart == <<"'", "Playwright", "'">>
UrlPart == <<" ", "https://", "a", ".", "com">>

\* a filler word, a set of keywords, then a quoted term or not, a URL or not
ComposedTexts ==
    {Str(Filler \o KeywordText(S) \o q \o u) :
        S \in SUBSET {KeywordOrder[k] : k \in 1..Len(KeywordOrder)},
        q \in {<<>>, QuotePart},
        u \in {<<>>, UrlPart}}

\* texts with the other keywords and with the corner cases of the two
\* regular expressions
VariantTexts ==
    {Str(<<"fangwen", " ", "http://", "b", ")", "https://", "c">>),
     Str(<<"dakai", "(", "https://", "a", "fwcomma", "b">>),
     Str(<<"daohang", "https://", " ", "x">>),
     Str(<<"sousuo", "shuru", "\"", "x", "'", "y", "\"">>),
     Str(<<"sousuo", "shuru", "'", "'">>),
     Str(<<"jiancha", "biaoti">>),
     Str(<<"jiancha", "dengdai">>),
     NotAStr, NullStep, FloatStep, BoolStep, ListClick, ListNav, ListEmpty, DictStep}

StepTexts == ComposedTexts \cup VariantTexts

\* a step alone, or after a step whose action may fail without failing the
\* step, and a navigation followed by a click
StepLists ==
    {<<t>> : t \in StepTexts} \cup {<<TextVerifyOther, t>> : t \in StepTexts}
        \cup {<<TextGoto, TextClickSubmit>>}

\* the (action, kwargs) pairs of a sequence of executor calls
Issued(calls) ==
    [k \in 1..Len(calls) |-> [action |-> calls[k].call, kwargs |-> calls[k].kwargs]]

\* what each step issues when it is the only step of a case, run on an open
\* page under the other response text
Alone(items) ==
    [i \in 1..Len(items) |->
        Issued(ParseAndExecuteAiCommands("open", <<"plan B">>, <<items[i]>>,
                                         <<OpOk>>).calls)]

\* the calls that reached the browser
BrowserOps(calls) == SelectSeq(calls, LAMBDA c : c.op)

\* the state once the loop of f ran on to b, the first action answered by
\* out: parse_and_execute_ai_commands waits for its next action, or the loop
\* is over and the dict is returned to the client
ParseRun(f, out, b) ==
    /\ cur' = Some([f EXCEPT !.loop = b.loop, !.done = b.done,
                             !.outs = Padded(f.outs \o <<out>>, b.done),
                             !.calls = b.loop.calls,
                             !.phase = IF b.loop.broke \/ b.done = Len(Items(f))
                                       THEN "returned" ELSE "steps",
                             !.execution_result =
                                 IF b.loop.broke \/ b.done = Len(Items(f))
                                 THEN Some(LoopResult(b.loop).result) ELSE None])
    /\ log' = log \o Tagged(BrowserOps(NewCalls(f.loop, b.loop)), 0)
    /\ clock' = clock + Len(NewCalls(f.loop, b.loop))
    /\ raised' = None

\* the locals of parse_and_execute_ai_commands(ai_response, test_case) when
\* it is called
ParseCall(items, ai_response) ==
    [kind |-> "parse", pg |-> page, ai_response |-> ai_response,
     test_case |-> [id |-> CaseId(1), name |-> <<"case">>,
                    steps |-> [iter |-> TRUE, items |-> items]],
     case |-> 0,
     returned |-> None, loop |-> LoopStart, done |-> 0, outs |-> <<>>,
     phase |-> "steps",
     execution_result |-> None,
     calls |-> <<>>,
     raised |-> None,
     alone |-> Alone(items)]

\* runner.parse_and_execute_ai_commands(ai_response, test_case) called by the
\* client: the loop up to the answer of its first action
DirectParse ==
    /\ pc = "direct"
    /\ cur = None
    /\ \E items \in StepLists, ai_response \in AiTexts :
        \E out \in Answers(page, items[1]) :
            ParseRun(ParseCall(items, ai_response), out,
                     RunOn(LoopStart, page, items, 1, out))
    /\ UNCHANGED <<test_cases, pc, idx, browser, context, page, test_results, reported,
                   reports_dir, setup, called>>

\* the loop resumed: the next step, up to the answer of its action
ParseResume ==
    /\ pc = "direct"
    /\ cur # None
    /\ Looping(cur[1])
    /\ \E out \in Answers(page, Items(cur[1])[cur[1].done + 1]) :
        ParseRun(cur[1], out,
                 RunOn(cur[1].loop, page, Items(cur[1]), cur[1].done + 1, out))
    /\ UNCHANGED <<test_cases, pc, idx, browser, context, page, test_results, reported,
                   reports_dir, setup, called>>

\* the URL of the client's other call
OtherUrl == <<"https://", "other", ".", "example">>

\* runner.execute_playwright_action("goto", url=...) called once by the
\* client in another task, at any moment: before, between two steps of the
\* loop, or after
ConcurrentGoto ==
    /\ pc = "direct"
    /\ called = None
    /\ \E out \in DirectOutcomes("goto") :
        DirectReturn("goto", [url |-> OtherUrl], out,
                     ExecutePlaywrightAction(page, "goto", [url |-> OtherUrl], out))
    /\ UNCHANGED <<test_cases, pc, idx, browser, context, page, test_results, cur,
                   reported, reports_dir, setup>>

NextStep == SetupBrowser \/ DirectParse \/ ParseResume \/ ConcurrentGoto

\* a client that calls setup_browser (or not) and has one step list executed,
\* with one executor call of its own in another task
SpecStep == InitDirect /\ [][NextStep]_vars

-----------------------------------------------------------------------------
(* Properties of the step interpretation *)

\* the parse_and_execute_ai_commands call recorded in cur has returned
ParseCalled == cur # None /\ cur[1].kind = "parse" /\ cur[1].execution_result # None

\* the executor calls issued for step i
StepCalls(i) == SelectSeq(cur[1].calls, LAMBDA c : c.step = i)

\* the text has a navigation keyword
NavKw(t) == Contains("daohang", t) \/ Contains("dakai", t) \/ Contains("fangwen", t)

\* the text has the search and the input keyword
FillKw(t) == Contains("sousuo", t) /\ Contains("shuru", t)

\* the rule of the table that applies to a text: the earliest in the order
\* navigate, search-fill, click, verify/check, wait, default
EarliestRule(t) ==
    IF NavKw(t) THEN "navigate"
    ELSE IF FillKw(t) THEN "search"
    ELSE IF Contains("dianji", t) THEN "click"
    ELSE IF Contains("yanzheng", t) \/ Contains("jiancha", t) THEN "verify"
    ELSE IF Contains("dengdai", t) THEN "wait"
    ELSE "default"

\* step i was handled as the default rule handles a step
HandledAsDefault(i) ==
    /\ Produced[i].success
    /\ Get(Produced[i], "message", None) = Some(StepDoneMessage)
    /\ Issued(StepCalls(i)) = <<[action |-> "wait", kwargs |-> [timeout |-> 1000]]>>

\* the text names a navigation or a search-fill but holds no URL or quoted term
FailedExtraction(t) ==
    \/ EarliestRule(t) = "navigate" /\ UrlSearch(t) = None
    \/ EarliestRule(t) = "search" /\ QuoteSearch(t) = None

\* C16 as stated: a step with a navigation keyword and no URL, or with the
\* search and input keywords and no quoted term, is handled as a step that
\* matches no rule: wait(1000) and a success with the generic message.
C16_FallThroughOnFailedExtraction ==
    ParseCalled =>
        \A i \in 1..Len(Produced) :
            (Declared[i].str /\ FailedExtraction(Declared[i].text)) => HandledAsDefault(i)

\* the one action a rule can issue
RuleIssues(rule, a) ==
    CASE rule = "navigate" -> a.action = "goto"
      [] rule = "search" -> a.action = "fill"
      [] rule = "click" -> a.action = "click"
      [] rule = "verify" ->
            \/ a.action = "get_title"
            \/ a = [action |-> "wait", kwargs |-> [timeout |-> 2000]]
      [] rule = "wait" -> a = [action |-> "wait", kwargs |-> [timeout |-> 3000]]
      [] OTHER -> a = [action |-> "wait", kwargs |-> [timeout |-> 1000]]

\* C17: first match wins.  A step issues at most one action, and the action
\* issued is the one of the earliest rule whose keywords the text holds,
\* whatever keywords of later rules it holds too.
C17_FirstMatchWins ==
    ParseCalled =>
        \A i \in 1..Len(Produced) :
            Declared[i].str =>
                /\ Len(StepCalls(i)) <= 1
                /\ \A k \in 1..Len(StepCalls(i)) :
                    RuleIssues(EarliestRule(Declared[i].text), Issued(StepCalls(i))[k])

\* a step with a navigation keyword, a URL, the click and the wait keyword
\* issued a goto and nothing else
C17_Witness ==
    /\ ParseCalled
    /\ Len(Produced) = 1
    /\ Contains("daohang", Declared[1].text)
    /\ Contains("dianji", Declared[1].text)
    /\ Contains("dengdai", Declared[1].text)
    /\ Issued(StepCalls(1)) = <<[action |-> "goto",
                                 kwargs |-> [url |-> <<"https://", "a", ".", "com">>]]>>

\* the action of the rule table for a text whose extraction succeeds
TableAction(t) ==
    CASE EarliestRule(t) = "navigate" ->
            [action |-> "goto", kwargs |-> [url |-> UrlSearch(t)[1]]]
      [] EarliestRule(t) = "search" ->
            [action |-> "fill",
             kwargs |-> [selector |-> <<"input[name='wd'], input#kw">>,
                         text |-> QuoteSearch(t)[1]]]
      [] EarliestRule(t) = "click" ->
            IF Contains("sousuo", t) \/ Contains("anniu", t)
            THEN [action |-> "click",
                  kwargs |-> [selector |-> <<"input[type='submit'], button, #su">>]]
            ELSE [action |-> "click", kwargs |-> [selector |-> <<"button, a">>]]
      [] EarliestRule(t) = "wait" ->
            [action |-> "wait", kwargs |-> [timeout |-> 3000]]

\* C18: when the URL or quoted term the rule needs is present, a navigation,
\* search-fill, click or wait step issues exactly the action of the table.
C18_RuleTable ==
    ParseCalled =>
        \A i \in 1..Len(Produced) :
            (/\ Declared[i].str
             /\ EarliestRule(Declared[i].text) \in {"navigate", "search", "click", "wait"}
             /\ ~FailedExtraction(Declared[i].text)) =>
                Issued(StepCalls(i)) = <<TableAction(Declared[i].text)>>

\* a navigation step with two URLs, the first closed by a bracket, issued a
\* goto of the first URL up to the bracket
C18_Witness ==
    /\ ParseCalled
    /\ Declared[Len(Declared)].text = <<"fangwen", " ", "http://", "b", ")", "https://", "c">>
    /\ Len(Produced) = Len(Declared)
    /\ Issued(StepCalls(Len(Declared))) =
            <<[action |-> "goto", kwargs |-> [url |-> <<"http://", "b">>]]>>

\* C19: a step with none of the rule keywords issues exactly one action,
\* wait(1000), and is a success with the generic message whatever the wait
\* returned.
C19_DefaultRule ==
    ParseCalled =>
        \A i \in 1..Len(Produced) :
            (Declared[i].str /\ EarliestRule(Declared[i].text) = "default"
                /\ ~Contains("anniu", Declared[i].text)
                /\ ~Contains("biaoti", Declared[i].text)) =>
                HandledAsDefault(i)

\* a step without keywords whose wait failed on an open page: still a success
C19_Witness ==
    /\ ParseCalled
    /\ cur[1].pg = "open"
    /\ Len(Produced) = 1
    /\ Declared[1].text = Filler
    /\ Len(cur[1].calls) = 1 /\ ~cur[1].calls[1].ok
    /\ cur[1].execution_result[1].success

\* C20: the action and parameters issued for a step are those the same text
\* issues as the only step of a case on an open page under another response
\* text: they do not depend on the position, on the result of the step
\* before, on the response text or on the page.
C20_InterpretationDependsOnTextOnly ==
    ParseCalled =>
        \A i \in 1..Len(Produced) : Issued(StepCalls(i)) = cur[1].alone[i]

\* a goto issued for the second step of a list, with no page, after a step
\* whose action returned a failure
C20_Witness ==
    /\ ParseCalled
    /\ cur[1].pg = "None"
    /\ cur[1].ai_response = <<"plan A">>
    /\ Len(Produced) = 2
    /\ ~cur[1].calls[1].ok
    /\ \E k \in 1..Len(StepCalls(2)) : StepCalls(2)[k].call = "goto"

-----------------------------------------------------------------------------
(* Properties of the errors, the timing and the order of the calls *)

\* C22 as stated: every TestCaseResult with success = false carries an error
\* that is neither null nor empty, whichever way the case failed.
C22_FailedCaseHasError ==
    (Reported /\ ~cur[1].test_result.success) =>
        /\ cur[1].test_result.error # None
        /\ cur[1].test_result.error[1] # <<>>

\* the executor calls of step i of the case last run
CallsOfStep(i) == {m \in ExecutorCalls : cur[1].calls[m].step = i}

\* C23 as stated: a StepResult that is a failure because the action issued
\* for its step returned a failure holds that action's error message, for
\* every rule.
C23_StepErrorIsActionError ==
    Executed =>
        \A i \in 1..Len(Produced) :
            (~Produced[i].success /\ \E m \in CallsOfStep(i) : ~cur[1].calls[m].ok) =>
                Produced[i].error = Some(OpFail.detail)

\* C25 as stated: when setup_browser fails nothing else is called, no result
\* is appended and the reporter is not invoked; and whenever run_all_tests
\* gives up before every case has run, it is because setup_browser failed.
C25_OnlySetupIsFatal ==
    /\ \A m \in 1..Len(log) :
        (log[m].call \in {"start", "launch", "new_context", "new_page"} /\ ~log[m].ok) =>
            (m = Len(log) /\ cur = None /\ test_results = <<>> /\ reported = None
                /\ pc = "aborted")
    /\ (pc \in {"finally", "report", "done", "aborted"} /\ idx <= Len(test_cases)) =>
            raised = Some("SetupError")

\* C26: the calls of a run are made one after the other, case by case: in
\* the call log no call of a case follows a call of a later case, the calls
\* of two different cases are separated by the sleep taken after the earlier
\* one, and a case starts no sooner than the pacing delay after the end of
\* the case before.
C26_OneCaseAtATime ==
    /\ \A m, n \in 1..Len(log) :
        (m < n /\ log[m].case # 0 /\ log[n].case # 0) =>
            /\ log[m].case <= log[n].case
            /\ log[m].case < log[n].case =>
                \E k \in m..(n - 1) : log[k] = SleepCall(log[m].case)
    /\ \A i \in 1..(Len(test_results) - 1) :
        test_results[i + 1].start_time >= test_results[i].end_time + PacingDelay

\* two cases run to their end, each with a step action
C26_Witness ==
    /\ pc = "done"
    /\ Len(test_results) = 2
    /\ Len(test_results[1].steps) >= 1
    /\ Len(test_results[2].steps) >= 1
    /\ ~test_results[1].success

\* C27 as stated: start_time <= end_time, duration >= 0, and end_time is
\* taken when the case is over: after every call of the case, the failure
\* screenshot included (every call takes one tick).
C27_DurationSpansWholeCase ==
    Reported =>
        /\ cur[1].test_result.start_time <= cur[1].test_result.end_time
        /\ cur[1].test_result.duration >= 0
        /\ cur[1].test_result.duration =
                cur[1].test_result.end_time - cur[1].test_result.start_time
        /\ cur[1].test_result.end_time =
                cur[1].test_result.start_time + Len(cur[1].calls)

\* the title holds one of the expected markers
HasMarker(title) ==
    \E k \in 1..Len(title) : title[k] \in {"baidu", "playwright", "Playwright", "PLAYWRIGHT"}

\* the title a get_title call reported, read from the StepResult's message
ReportedTitle(i) == Tail(Produced[i].message[1])

\* C28: a verify/check step with the title keyword issues exactly one
\* get_title and is a success iff get_title succeeded and the title holds a
\* marker; a verify/check step without the title keyword issues exactly one
\* wait(2000).
C28_VerifyRule ==
    ParseCalled =>
        \A i \in 1..Len(Produced) :
            (Declared[i].str /\ EarliestRule(Declared[i].text) = "verify") =>
                IF Contains("biaoti", Declared[i].text)
                THEN /\ Issued(StepCalls(i)) = <<[action |-> "get_title", kwargs |-> <<>>]>>
                     /\ Produced[i].success <=>
                            (StepCalls(i)[1].ok /\ HasMarker(ReportedTitle(i)))
                ELSE Issued(StepCalls(i)) =
                        <<[action |-> "wait", kwargs |-> [timeout |-> 2000]]>>

\* a title step passed on a title that holds the marker in another case
C28_Witness ==
    /\ ParseCalled
    /\ Len(Produced) = 1
    /\ Contains("yanzheng", Declared[1].text) /\ Contains("biaoti", Declared[1].text)
    /\ Produced[1].success
    /\ ReportedTitle(1) = <<"Playwright", " ", "docs">>

\* C29 as stated: a StepResult is a success only if an action was issued for
\* the step and that action returned success.
C29_Original ==
    ParseCalled =>
        \A i \in 1..Len(Produced) :
            Produced[i].success =>
                (Len(StepCalls(i)) = 1 /\ StepCalls(i)[1].ok)

\* the rules that do not look at what their wait returned
IgnoresResult(t) ==
    \/ EarliestRule(t) = "default"
    \/ EarliestRule(t) = "verify" /\ ~Contains("biaoti", t)

\* C29 amended: a StepResult is a success only if exactly one action was
\* issued for the step; that action returned success unless the step is
\* handled by the default rule or the verify-without-title rule, whose steps
\* are a success whatever their wait returned.
C29_Amended ==
    ParseCalled =>
        \A i \in 1..Len(Produced) :
            /\ Produced[i].success =>
                /\ Len(StepCalls(i)) = 1
                /\ StepCalls(i)[1].ok \/ IgnoresResult(Declared[i].text)
            /\ (Declared[i].str /\ IgnoresResult(Declared[i].text)) => Produced[i].success

\* a verify step without the title keyword, a success though its wait failed
C29_Witness ==
    /\ ParseCalled
    /\ cur[1].pg = "open"
    /\ Len(Produced) = 2
    /\ Produced[1].success
    /\ ~StepCalls(1)[1].ok
    /\ Produced[2].success
    /\ StepCalls(2)[1].ok

-----------------------------------------------------------------------------
(* run_all_tests called a second time on the same runner, same test cases *)

InitTwice == test_cases \in SuitesOfLen(1, SuiteTexts) /\ InitRunner

\* the second call of run_all_tests(test_cases): nothing of the runner is
\* reset, self.test_results is only assigned in __init__
RunAgain ==
    /\ pc = "done"
    /\ Len(reported) = 1
    /\ pc' = "setup"
    /\ idx' = 1
    /\ setup' = "start"
    /\ UNCHANGED <<test_cases, browser, context, page, test_results, log, clock,
                   cur, raised, reported, reports_dir, called>>

NextTwice == Next \/ RunAgain

SpecTwice == InitTwice /\ [][NextTwice]_vars

\* where in the call log a run starts: its setup_browser call
RunStarts == {m \in 1..Len(log) : log[m].call = "start"}

\* what the collaborators did in the calls from position a on, b of them
Behaviour(a, b) == [m \in 1..b |-> <<log[a + m - 1].call, log[a + m - 1].ok,
                                     log[a + m - 1].op>>]

\* the collaborators behaved in the second run as in the first
SameBehaviour ==
    \E a \in RunStarts :
        /\ a > 1
        /\ Len(log) = 2 * (a - 1)
        /\ Behaviour(1, a - 1) = Behaviour(a, a - 1)

\* C21 as stated: when run_all_tests has run twice over the same cases, each
\* list handed to the reporter has one entry per case, the second list holds
\* none of the results of the first, and with the same collaborator behaviour
\* the two lists agree on the success of every case.
C21_IndependentRuns ==
    Len(reported) = 2 =>
        /\ Len(reported[1]) = Len(test_cases)
        /\ Len(reported[2]) = Len(test_cases)
        /\ \A i \in 1..Len(reported[2]) : \A j \in 1..Len(reported[1]) :
                reported[2][i] # reported[1][j]
        /\ SameBehaviour =>
                \A i \in 1..Len(test_cases) :
                    reported[2][i].success = reported[1][i].success

-----------------------------------------------------------------------------
(* main: the provider configuration is validated, the test cases are loaded, *)
(* a runner is constructed and run_all_tests is called                       *)

\* the environment variables create_ai_client reads for the credential
KeyNames == {"DEEPSEEK_API_KEY", "QWEN_API_KEY", "DASHSCOPE_API_KEY",
             "COPILOT_API_KEY", "OPENAI_API_KEY"}

NoKeys == [k \in KeyNames |-> None]

\* os.environ: every variable unset (None), or one of them set to the empty
\* string or to a key, or QWEN_API_KEY empty with DASHSCOPE_API_KEY set
KeyEnvs ==
    {NoKeys}
    \cup {[NoKeys EXCEPT ![k] = v] : k \in KeyNames, v \in {Some(""), Some("sk")}}
    \cup {[NoKeys EXCEPT !["QWEN_API_KEY"] = Some(""), !["DASHSCOPE_API_KEY"] = Some("sk")]}

\* the values of the AI_PROVIDER environment variable (None: unset)
ProviderEnvs == {None, Some(""), Some("deepseek"), Some("DeepSeek"), Some("qwen"),
                 Some("copilot"), Some("OPENAI"), Some("claude")}

\* str.lower() of a provider name
LowerName(p) ==
    CASE p = "DeepSeek" -> "deepseek"
      [] p = "OPENAI" -> "openai"
      [] OTHER -> p

\* AI_PROVIDER = os.getenv("AI_PROVIDER", "deepseek").lower()
AiProvider(environ) ==
    LowerName(IF environ.AI_PROVIDER = None THEN "deepseek" ELSE environ.AI_PROVIDER[1])

\* Python's `not api_key`
NotKey(v) == v = None \/ v = Some("")

\* Python's `a or b`
Either(a, b) == IF NotKey(a) THEN b ELSE a

\* the client classes' __init__: ImportError without the openai package
NewClient(name, installed) ==
    [raised |-> IF installed THEN None ELSE Some("ImportError"), client |-> name]

\* create_ai_client falling back to deepseek for an unknown provider and
\* taking any of the keys that is set
CreateAiClientLenient(provider, environ) ==
    IF \A k \in KeyNames : NotKey(environ.keys[k])
    THEN [raised |-> Some("ValueError"), client |-> "None"]
    ELSE NewClient(IF LowerName(provider) \in {"deepseek", "qwen", "copilot", "openai"}
                   THEN LowerName(provider) ELSE "deepseek", environ.installed)

\* create_ai_client(provider) in the environment environ
CreateAiClient(provider, environ) ==
    LET p == LowerName(provider)
        Missing == [raised |-> Some("ValueError"), client |-> "None"]
    IN  CASE p = "deepseek" ->
                IF NotKey(environ.keys["DEEPSEEK_API_KEY"]) THEN Missing
                ELSE NewClient("deepseek", environ.installed)
          [] p = "qwen" ->
                IF NotKey(Either(environ.keys["QWEN_API_KEY"],
                                 environ.keys["DASHSCOPE_API_KEY"])) THEN Missing
                ELSE NewClient("qwen", environ.installed)
          [] p = "copilot" ->
                IF NotKey(environ.keys["COPILOT_API_KEY"]) THEN Missing
                ELSE NewClient("copilot", environ.installed)
          [] p = "openai" ->
                IF NotKey(environ.keys["OPENAI_API_KEY"]) THEN Missing
                ELSE NewClient("openai", environ.installed)
          [] OTHER -> Missing

\* the log entry of a create_ai_client call
CreateCall(environ, r) ==
    [call |-> "create_ai_client", kwargs |-> environ, ok |-> (r.raised = None),
     op |-> TRUE, step |-> 0, case |-> 0]

InitMain ==
    /\ test_cases = <<>>
    /\ pc = "main"
    /\ idx = 1
    /\ browser = "None"
    /\ context = "None"
    /\ page = "None"
    /\ test_results = <<>>
    /\ log = <<>>
    /\ clock = 0
    /\ cur = None
    /\ raised = None
    /\ reported = None
    /\ reports_dir \in RunnerDirs
    /\ setup = "start"
    /\ called = None

\* main: create_ai_client(AI_PROVIDER) in try; ValueError and any other
\* Exception end in sys.exit(1)
MainValidate ==
    /\ pc = "main"
    /\ \E environ \in [AI_PROVIDER : ProviderEnvs, keys : KeyEnvs, installed : BOOLEAN] :
        LET r == CreateAiClient(AiProvider(environ), environ)
        IN  /\ log' = Append(log, CreateCall(environ, r))
            /\ raised' = IF r.raised = None THEN None ELSE Some("SystemExit")
            /\ pc' = IF r.raised = None THEN "load" ELSE "exited"
    /\ UNCHANGED <<test_cases, idx, browser, context, page, test_results, clock,
                   cur, reported, reports_dir, setup, called>>

\* get_default_test_cases(): TC001 with two steps, TC002 with five
GetDefaultTestCases ==
    <<[id |-> CaseId(1),
       name |-> <<"fangwen", "baidu", "shouye">>,
       description |-> <<"dakai", "baidu", "wangzhan", "shouye", "fwcomma", "yanzheng",
                         "yemian", "biaoti", "baohan", "'", "baidu", "'">>,
       steps |-> [iter |-> TRUE, items |->
            <<Str(<<"daohang", "dao", " ", "https://", "www.baidu.com">>),
              Str(<<"yanzheng", "yemian", "biaoti", "baohan", "'", "baidu", "'">>)>>]],
      [id |-> CaseId(2),
       name |-> <<"sousuo", "gongneng", "ceshi">>,
       description |-> <<"zai", "baidu", "sousuo", "kuang", "zhong", "shuru", "'",
                         "Playwright", "'", "bing", "sousuo", "fwcomma", "yanzheng",
                         "sousuo", "jieguo", "yemian">>,
       steps |-> [iter |-> TRUE, items |->
            <<Str(<<"daohang", "dao", " ", "https://", "www.baidu.com">>),
              Str(<<"zhaodao", "sousuo", "kuang", "bing", "shuru", "'", "Playwright", "'">>),
              Str(<<"dianji", "sousuo", "anniu">>),
              Str(<<"dengdai", "sousuo", "jieguo", "jiazai">>),
              Str(<<"yanzheng", "sousuo", "jieguo", "yemian", "baohan", "xiangguan",
                    "neirong">>)>>]]>>

\* what load_test_cases() returns: the default cases when the testcase
\* directory has no usable file, else the cases of its files
LoadedSuites == {GetDefaultTestCases} \cup SuitesOfLen(1, SuiteTexts)

\* test_cases = load_test_cases(); an empty list ends in sys.exit(1)
LoadTestCases ==
    /\ pc = "load"
    /\ test_cases' \in LoadedSuites
    /\ pc' = IF test_cases' = <<>> THEN "exited" ELSE "construct"
    /\ raised' = IF test_cases' = <<>> THEN Some("SystemExit") ELSE raised
    /\ UNCHANGED <<idx, browser, context, page, test_results, log, clock, cur,
                   reported, reports_dir, setup, called>>

\* runner = PlaywrightMCPTestRunner(): create_ai_client(AI_PROVIDER) once
\* more, in the same environment; its exception is raised again
Construct ==
    /\ pc = "construct"
    /\ LET environ == log[1].kwargs
           r == CreateAiClient(AiProvider(environ), environ)
       IN  /\ log' = Append(log, CreateCall(environ, r))
           /\ raised' = r.raised
           /\ pc' = IF r.raised = None THEN "setup" ELSE "aborted"
    /\ UNCHANGED <<test_cases, idx, browser, context, page, test_results, clock,
                   cur, reported, reports_dir, setup, called>>

NextMain == MainValidate \/ LoadTestCases \/ Construct \/ Next

SpecMain == InitMain /\ [][NextMain]_vars

\* main has validated the configuration
MainCalled == Len(log) >= 1 /\ log[1].call = "create_ai_client"

\* the credential variables of each supported provider
CredentialOf ==
    [deepseek |-> {"DEEPSEEK_API_KEY"}, qwen |-> {"QWEN_API_KEY", "DASHSCOPE_API_KEY"},
     copilot |-> {"COPILOT_API_KEY"}, openai |-> {"OPENAI_API_KEY"}]

\* the provider selected by environ, whatever its letter case
Selected(environ) ==
    CASE environ.AI_PROVIDER = None -> "deepseek"
      [] environ.AI_PROVIDER \in {Some("deepseek"), Some("DeepSeek")} -> "deepseek"
      [] environ.AI_PROVIDER = Some("OPENAI") -> "openai"
      [] OTHER -> environ.AI_PROVIDER[1]

\* the provider is not supported, or none of its credential variables holds
\* a key
ConfigError(environ) ==
    \/ Selected(environ) \notin DOMAIN CredentialOf
    \/ \A k \in CredentialOf[Selected(environ)] : environ.keys[k] \in {None, Some("")}

\* C24: when the selected provider is unsupported or its credential is
\* missing, create_ai_client raises and main exits at once: no test case is
\* loaded, no runner is built, no browser is started, no advisory call or any
\* other call is made and no report is produced.
C24_ConfigErrorStopsAtStartup ==
    (MainCalled /\ ConfigError(log[1].kwargs)) =>
        /\ ~log[1].ok
        /\ pc = "exited"
        /\ raised = Some("SystemExit")
        /\ Len(log) = 1
        /\ test_cases = <<>>
        /\ browser = "None" /\ context = "None" /\ page = "None"
        /\ test_results = <<>>
        /\ cur = None
        /\ reported = None

\* qwen selected while only the key of another provider is set
C24_Witness ==
    /\ MainCalled
    /\ pc = "exited"
    /\ log[1].kwargs.AI_PROVIDER = Some("qwen")
    /\ log[1].kwargs.keys["DEEPSEEK_API_KEY"] = Some("sk")
    /\ log[1].kwargs.installed

-----------------------------------------------------------------------------
(* generate_report called by a client itself, on any result list *)

InitReport ==
    /\ test_cases = <<>>
    /\ pc = "report"
    /\ idx = 1
    /\ browser = "None"
    /\ context = "None"
    /\ page = "None"
    /\ test_results \in ReportInputs
    /\ log = <<>>
    /\ clock = 1
    /\ cur = None
    /\ raised = None
    /\ reported = None
    /\ reports_dir \in ReportDirs
    /\ setup = "start"
    /\ called = None

NextReport == GenerateReport

SpecReport == InitReport /\ [][NextReport]_vars

\* the summaries of the directory written at timestamp ts that can be read
SummaryAt(ts) == {f \in reports_dir.summaries : f.ts = ts /\ f.content # None}

\* generate_report has run on a non-empty list (its pie chart is there) and
\* the write of its summary file failed
SummaryWriteFailed ==
    /\ pc \in {"done", "aborted"}
    /\ reported # None
    /\ <<"test_chart", clock - 1>> \in reports_dir.charts
    /\ SummaryAt(clock - 1) = {}

\* C30 as stated: for a non-empty result list, when _save_summary could not
\* write its file generate_report still returns without raising and the HTML
\* report is produced, also when the directory held no earlier summary.
C30_SummaryFailureIsHarmless ==
    (SummaryWriteFailed /\ test_results # <<>>) =>
        /\ raised = None
        /\ pc = "done"
        /\ \E h \in reports_dir.reports : h.ts = clock - 1

====
